---------------------------- MODULE Spec2Model ----------------------------
(***************************************************************************)
(* Plan execution and parameter adaptation of the AI browser agent.        *)
(*                                                                         *)
(*   src/expiremental-new.py   run_integrated, MCPClient                   *)
(*   src/param_adapter.py, src/playwright_adapter.py                       *)
(*   src/playwright_function_patches.py                                    *)
(*   src/exp_tools.py          PlaywrightTools                             *)
(*                                                                         *)
(* Python strings that the code inspects character by character (tool     *)
(* names, selectors, scripts, filenames) are sequences of one-character    *)
(* strings.  Python's None is the value None.                              *)
(***************************************************************************)
EXTENDS Integers, Sequences, FiniteSets, TLC

VARIABLES
    executor,                 \* which entry point runs the plan
    client,                   \* MCPClient: which of session, llm_client, server are set
    reply,                    \* what the language model answers when it is asked
    pc,                       \* position of the executor
    tool_calls,               \* the plan: list of {"tool", "arguments"}
    i,                        \* loop index (a Python int: may become negative)
    results,                  \* the plan trace
    success_count,
    error_recovery_attempts,
    ret,                      \* return value of process_natural_language
    invoked,                  \* history: every call of a tools_instance attribute
    log,                      \* history: one record per loop pass
    prompts,                  \* history: number of retry prompts answered 'y'
    fn,                       \* adaptation under study (pure-function specs)
    fn_in,                    \* its input
    fn_out,                   \* its output
    tools,                    \* the PlaywrightTools instance: its fields
    world,                    \* the browser library: what is open, what was launched
    tool_ret                  \* history: the last operation on tools and what it gave back

vars == << executor, client, reply, pc, tool_calls, i, results, success_count,
           error_recovery_attempts, ret, invoked, log, prompts,
           fn, fn_in, fn_out, tools, world, tool_ret >>

execVars == << executor, client, reply, pc, tool_calls, i, results, success_count,
               error_recovery_attempts, ret, invoked, log, prompts >>

fnVars == << fn, fn_in, fn_out >>

toolsVars == << tools, world, tool_ret >>

None == "None"

-----------------------------------------------------------------------------
(* Bounds of the model.                                                    *)

MaxPlanLen == 2

MaxRetries == 2

MaxFrags == 3

-----------------------------------------------------------------------------
(* The tools instance: dir(tools_instance) restricted to its methods, in   *)
(* dir() order (sorted), and one data attribute.                           *)

MethodNames ==
    << "_ensure_browser_initialized",
       "_get_page",
       "_get_screenshot_path",
       "cleanup",
       "clear_codegen_session",
       "end_codegen_session",
       "get_codegen_session",
       "initialize",
       "playwright_accessibility_snapshot",
       "playwright_assert_response",
       "playwright_auto_handle_next_dialog",
       "playwright_click",
       "playwright_click_and_switch_tab",
       "playwright_close",
       "playwright_console_logs",
       "playwright_css_locator",
       "playwright_css_text_selector",
       "playwright_css_visibility_selector",
       "playwright_custom_user_agent",
       "playwright_drag",
       "playwright_evaluate",
       "playwright_expect_response",
       "playwright_fill",
       "playwright_find_by_role",
       "playwright_find_by_role_in_accessibility_tree",
       "playwright_get_visible_html",
       "playwright_get_visible_text",
       "playwright_go_back",
       "playwright_go_forward",
       "playwright_hover",
       "playwright_iframe_click",
       "playwright_intercept_requests",
       "playwright_label_to_control",
       "playwright_locator_by_alt_text",
       "playwright_locator_by_label",
       "playwright_locator_by_placeholder",
       "playwright_locator_by_title",
       "playwright_navigate",
       "playwright_navigate_and_wait_for_url",
       "playwright_nth_element",
       "playwright_parent_element",
       "playwright_press_key",
       "playwright_remove_dialog_handler",
       "playwright_save_as_pdf",
       "playwright_screenshot",
       "playwright_select",
       "playwright_set_dialog_handler",
       "playwright_smart_click",
       "playwright_stop_intercepting_requests",
       "playwright_wait_for_load_state_multiple",
       "playwright_wait_for_navigation",
       "playwright_xpath_locator",
       "start_codegen_session" >>

Chars(n) ==
  CASE
       n = "_ensure_browser_initialized" -> <<"_","e","n","s","u","r","e","_","b","r","o","w","s","e","r","_","i","n","i","t","i","a","l","i","z","e","d">>
    []
       n = "_get_page" -> <<"_","g","e","t","_","p","a","g","e">>
    []
       n = "_get_screenshot_path" -> <<"_","g","e","t","_","s","c","r","e","e","n","s","h","o","t","_","p","a","t","h">>
    []
       n = "cleanup" -> <<"c","l","e","a","n","u","p">>
    []
       n = "clear_codegen_session" -> <<"c","l","e","a","r","_","c","o","d","e","g","e","n","_","s","e","s","s","i","o","n">>
    []
       n = "end_codegen_session" -> <<"e","n","d","_","c","o","d","e","g","e","n","_","s","e","s","s","i","o","n">>
    []
       n = "get_codegen_session" -> <<"g","e","t","_","c","o","d","e","g","e","n","_","s","e","s","s","i","o","n">>
    []
       n = "initialize" -> <<"i","n","i","t","i","a","l","i","z","e">>
    []
       n = "playwright_accessibility_snapshot" -> <<"p","l","a","y","w","r","i","g","h","t","_","a","c","c","e","s","s","i","b","i","l","i","t","y","_","s","n","a","p","s","h","o","t">>
    []
       n = "playwright_assert_response" -> <<"p","l","a","y","w","r","i","g","h","t","_","a","s","s","e","r","t","_","r","e","s","p","o","n","s","e">>
    []
       n = "playwright_auto_handle_next_dialog" -> <<"p","l","a","y","w","r","i","g","h","t","_","a","u","t","o","_","h","a","n","d","l","e","_","n","e","x","t","_","d","i","a","l","o","g">>
    []
       n = "playwright_click" -> <<"p","l","a","y","w","r","i","g","h","t","_","c","l","i","c","k">>
    []
       n = "playwright_click_and_switch_tab" -> <<"p","l","a","y","w","r","i","g","h","t","_","c","l","i","c","k","_","a","n","d","_","s","w","i","t","c","h","_","t","a","b">>
    []
       n = "playwright_close" -> <<"p","l","a","y","w","r","i","g","h","t","_","c","l","o","s","e">>
    []
       n = "playwright_console_logs" -> <<"p","l","a","y","w","r","i","g","h","t","_","c","o","n","s","o","l","e","_","l","o","g","s">>
    []
       n = "playwright_css_locator" -> <<"p","l","a","y","w","r","i","g","h","t","_","c","s","s","_","l","o","c","a","t","o","r">>
    []
       n = "playwright_css_text_selector" -> <<"p","l","a","y","w","r","i","g","h","t","_","c","s","s","_","t","e","x","t","_","s","e","l","e","c","t","o","r">>
    []
       n = "playwright_css_visibility_selector" -> <<"p","l","a","y","w","r","i","g","h","t","_","c","s","s","_","v","i","s","i","b","i","l","i","t","y","_","s","e","l","e","c","t","o","r">>
    []
       n = "playwright_custom_user_agent" -> <<"p","l","a","y","w","r","i","g","h","t","_","c","u","s","t","o","m","_","u","s","e","r","_","a","g","e","n","t">>
    []
       n = "playwright_drag" -> <<"p","l","a","y","w","r","i","g","h","t","_","d","r","a","g">>
    []
       n = "playwright_evaluate" -> <<"p","l","a","y","w","r","i","g","h","t","_","e","v","a","l","u","a","t","e">>
    []
       n = "playwright_expect_response" -> <<"p","l","a","y","w","r","i","g","h","t","_","e","x","p","e","c","t","_","r","e","s","p","o","n","s","e">>
    []
       n = "playwright_fill" -> <<"p","l","a","y","w","r","i","g","h","t","_","f","i","l","l">>
    []
       n = "playwright_find_by_role" -> <<"p","l","a","y","w","r","i","g","h","t","_","f","i","n","d","_","b","y","_","r","o","l","e">>
    []
       n = "playwright_find_by_role_in_accessibility_tree" -> <<"p","l","a","y","w","r","i","g","h","t","_","f","i","n","d","_","b","y","_","r","o","l","e","_","i","n","_","a","c","c","e","s","s","i","b","i","l","i","t","y","_","t","r","e","e">>
    []
       n = "playwright_get_visible_html" -> <<"p","l","a","y","w","r","i","g","h","t","_","g","e","t","_","v","i","s","i","b","l","e","_","h","t","m","l">>
    []
       n = "playwright_get_visible_text" -> <<"p","l","a","y","w","r","i","g","h","t","_","g","e","t","_","v","i","s","i","b","l","e","_","t","e","x","t">>
    []
       n = "playwright_go_back" -> <<"p","l","a","y","w","r","i","g","h","t","_","g","o","_","b","a","c","k">>
    []
       n = "playwright_go_forward" -> <<"p","l","a","y","w","r","i","g","h","t","_","g","o","_","f","o","r","w","a","r","d">>
    []
       n = "playwright_hover" -> <<"p","l","a","y","w","r","i","g","h","t","_","h","o","v","e","r">>
    []
       n = "playwright_iframe_click" -> <<"p","l","a","y","w","r","i","g","h","t","_","i","f","r","a","m","e","_","c","l","i","c","k">>
    []
       n = "playwright_intercept_requests" -> <<"p","l","a","y","w","r","i","g","h","t","_","i","n","t","e","r","c","e","p","t","_","r","e","q","u","e","s","t","s">>
    []
       n = "playwright_label_to_control" -> <<"p","l","a","y","w","r","i","g","h","t","_","l","a","b","e","l","_","t","o","_","c","o","n","t","r","o","l">>
    []
       n = "playwright_locator_by_alt_text" -> <<"p","l","a","y","w","r","i","g","h","t","_","l","o","c","a","t","o","r","_","b","y","_","a","l","t","_","t","e","x","t">>
    []
       n = "playwright_locator_by_label" -> <<"p","l","a","y","w","r","i","g","h","t","_","l","o","c","a","t","o","r","_","b","y","_","l","a","b","e","l">>
    []
       n = "playwright_locator_by_placeholder" -> <<"p","l","a","y","w","r","i","g","h","t","_","l","o","c","a","t","o","r","_","b","y","_","p","l","a","c","e","h","o","l","d","e","r">>
    []
       n = "playwright_locator_by_title" -> <<"p","l","a","y","w","r","i","g","h","t","_","l","o","c","a","t","o","r","_","b","y","_","t","i","t","l","e">>
    []
       n = "playwright_navigate" -> <<"p","l","a","y","w","r","i","g","h","t","_","n","a","v","i","g","a","t","e">>
    []
       n = "playwright_navigate_and_wait_for_url" -> <<"p","l","a","y","w","r","i","g","h","t","_","n","a","v","i","g","a","t","e","_","a","n","d","_","w","a","i","t","_","f","o","r","_","u","r","l">>
    []
       n = "playwright_nth_element" -> <<"p","l","a","y","w","r","i","g","h","t","_","n","t","h","_","e","l","e","m","e","n","t">>
    []
       n = "playwright_parent_element" -> <<"p","l","a","y","w","r","i","g","h","t","_","p","a","r","e","n","t","_","e","l","e","m","e","n","t">>
    []
       n = "playwright_press_key" -> <<"p","l","a","y","w","r","i","g","h","t","_","p","r","e","s","s","_","k","e","y">>
    []
       n = "playwright_remove_dialog_handler" -> <<"p","l","a","y","w","r","i","g","h","t","_","r","e","m","o","v","e","_","d","i","a","l","o","g","_","h","a","n","d","l","e","r">>
    []
       n = "playwright_save_as_pdf" -> <<"p","l","a","y","w","r","i","g","h","t","_","s","a","v","e","_","a","s","_","p","d","f">>
    []
       n = "playwright_screenshot" -> <<"p","l","a","y","w","r","i","g","h","t","_","s","c","r","e","e","n","s","h","o","t">>
    []
       n = "playwright_select" -> <<"p","l","a","y","w","r","i","g","h","t","_","s","e","l","e","c","t">>
    []
       n = "playwright_set_dialog_handler" -> <<"p","l","a","y","w","r","i","g","h","t","_","s","e","t","_","d","i","a","l","o","g","_","h","a","n","d","l","e","r">>
    []
       n = "playwright_smart_click" -> <<"p","l","a","y","w","r","i","g","h","t","_","s","m","a","r","t","_","c","l","i","c","k">>
    []
       n = "playwright_stop_intercepting_requests" -> <<"p","l","a","y","w","r","i","g","h","t","_","s","t","o","p","_","i","n","t","e","r","c","e","p","t","i","n","g","_","r","e","q","u","e","s","t","s">>
    []
       n = "playwright_wait_for_load_state_multiple" -> <<"p","l","a","y","w","r","i","g","h","t","_","w","a","i","t","_","f","o","r","_","l","o","a","d","_","s","t","a","t","e","_","m","u","l","t","i","p","l","e">>
    []
       n = "playwright_wait_for_navigation" -> <<"p","l","a","y","w","r","i","g","h","t","_","w","a","i","t","_","f","o","r","_","n","a","v","i","g","a","t","i","o","n">>
    []
       n = "playwright_xpath_locator" -> <<"p","l","a","y","w","r","i","g","h","t","_","x","p","a","t","h","_","l","o","c","a","t","o","r">>
    []
       n = "start_codegen_session" -> <<"s","t","a","r","t","_","c","o","d","e","g","e","n","_","s","e","s","s","i","o","n">>
    []
       n = "playwright_type" -> <<"p","l","a","y","w","r","i","g","h","t","_","t","y","p","e">>
    []
       n = "playwright_press" -> <<"p","l","a","y","w","r","i","g","h","t","_","p","r","e","s","s">>
    []
       n = "playwright_input" -> <<"p","l","a","y","w","r","i","g","h","t","_","i","n","p","u","t">>
    []
       n = "playwright_search" -> <<"p","l","a","y","w","r","i","g","h","t","_","s","e","a","r","c","h">>
    []
       n = "playwright_clik" -> <<"p","l","a","y","w","r","i","g","h","t","_","c","l","i","k">>
    []
       n = "playwright_navigat" -> <<"p","l","a","y","w","r","i","g","h","t","_","n","a","v","i","g","a","t">>
    []
       n = "browse" -> <<"b","r","o","w","s","e">>
    []
       n = "screenshot_dir" -> <<"s","c","r","e","e","n","s","h","o","t","_","d","i","r">>
    []
       n = "playwright_drll" -> <<"p","l","a","y","w","r","i","g","h","t","_","d","r","l","l">>
    []
       n = "playwright_clk" -> <<"p","l","a","y","w","r","i","g","h","t","_","c","l","k">>
    []
       n = "playwright_reload" -> <<"p","l","a","y","w","r","i","g","h","t","_","r","e","l","o","a","d">>
    []
       n = "playwright_scroll" -> <<"p","l","a","y","w","r","i","g","h","t","_","s","c","r","o","l","l">>
    []
       n = "playwright_scroll_to" -> <<"p","l","a","y","w","r","i","g","h","t","_","s","c","r","o","l","l","_","t","o">>

MethodSet == { MethodNames[k] : k \in 1..Len(MethodNames) }

\* self.screenshot_dir: a non-empty string, so truthy and not callable.
DataAttributes == { "screenshot_dir" }

HasAttr(name) == name \in MethodSet \cup DataAttributes

Callable(name) == name \in MethodSet

\* getattr(server.tools_instance, tool_name, None) for a string tool_name.
Getattr(name) == IF HasAttr(name) THEN name ELSE None

-----------------------------------------------------------------------------
(* String helpers (Python str methods on character sequences).             *)

StartsWith(s, p) ==
    /\ Len(p) <= Len(s)
    /\ \A k \in 1..Len(p) : s[k] = p[k]

EndsWith(s, p) ==
    /\ Len(p) <= Len(s)
    /\ \A k \in 1..Len(p) : s[Len(s) - Len(p) + k] = p[k]

\* p occurs in s starting at position k
OccursAt(s, p, k) ==
    /\ k >= 1
    /\ k + Len(p) - 1 <= Len(s)
    /\ \A j \in 1..Len(p) : s[k + j - 1] = p[j]

\* Python "p in s"
Contains(s, p) == \E k \in 1..(Len(s) + 1) : OccursAt(s, p, k)

Abs(x) == IF x < 0 THEN 0 - x ELSE x

Min(a, b) == IF a < b THEN a ELSE b

-----------------------------------------------------------------------------
(* Action Registry as the executor computes it.                            *)

PlaywrightPrefix == <<"p","l","a","y","w","r","i","g","h","t","_">>

\* [m for m in dir(tools_instance) if callable(...) and not m.startswith('_')
\*    and m.startswith('playwright_')]
available_tools ==
    SelectSeq(MethodNames,
              LAMBDA m : /\ Callable(m)
                         /\ ~StartsWith(Chars(m), <<"_">>)
                         /\ StartsWith(Chars(m), PlaywrightPrefix))

Registry == { available_tools[k] : k \in 1..Len(available_tools) }

\* sum(1 for a, b in zip(x, y) if a != b) + abs(len(x) - len(y))
Distance(x, y) ==
    Cardinality({ k \in 1..Min(Len(x), Len(y)) : x[k] # y[k] })
        + Abs(Len(x) - Len(y))

\* The loop over available_tools: the first name at the minimal distance wins
\* (strict <); closest_match = None stands for min_distance = float('inf').
RECURSIVE ClosestFrom(_, _, _)
ClosestFrom(tool_name, k, acc) ==
    IF k > Len(available_tools) THEN acc
    ELSE LET d == Distance(Chars(tool_name), Chars(available_tools[k]))
         IN  IF acc.closest_match = None \/ d < acc.min_distance
             THEN ClosestFrom(tool_name, k + 1,
                              [closest_match |-> available_tools[k], min_distance |-> d])
             ELSE ClosestFrom(tool_name, k + 1, acc)

ClosestMatch(tool_name) ==
    ClosestFrom(tool_name, 1, [closest_match |-> None, min_distance |-> 0])

auto_corrections ==
    [ a \in {"playwright_type", "playwright_press", "playwright_input", "playwright_search"} |->
        IF a = "playwright_press" THEN "playwright_press_key" ELSE "playwright_fill" ]

max_recovery_attempts == 2

\* Substitution with the nearest name taken whatever recoveries were used
SubstitutionWithoutBudget(tool_name, attempts) ==
    LET cm == ClosestMatch(tool_name)
    IN  IF tool_name \in DOMAIN auto_corrections
            THEN [kind |-> "alias", tool |-> auto_corrections[tool_name]]
        ELSE IF cm.closest_match # None /\ cm.min_distance <= 3
            THEN [kind |-> "fallback", tool |-> cm.closest_match]
        ELSE IF cm.closest_match # None /\ cm.min_distance <= 5
                /\ HasAttr("playwright_auto_execute")
            THEN [kind |-> "auto_execute", tool |-> "playwright_auto_execute"]
        ELSE [kind |-> "none", tool |-> tool_name]

\* Which substitution the not-found branch chooses for tool_name.
Substitution(tool_name, attempts) ==
    LET cm == ClosestMatch(tool_name)
    IN  IF tool_name \in DOMAIN auto_corrections
            THEN [kind |-> "alias", tool |-> auto_corrections[tool_name]]
        ELSE IF cm.closest_match # None /\ cm.min_distance <= 5
            THEN IF cm.min_distance <= 3 /\ attempts < max_recovery_attempts
                     THEN [kind |-> "fallback", tool |-> cm.closest_match]
                 ELSE IF HasAttr("playwright_auto_execute")
                     THEN [kind |-> "auto_execute", tool |-> "playwright_auto_execute"]
                 ELSE [kind |-> "none", tool |-> tool_name]
        ELSE [kind |-> "none", tool |-> tool_name]

-----------------------------------------------------------------------------
(* Plans: the tool calls a language-model reply can carry.                 *)

ToolCalls ==
    { [tool |-> "playwright_navigate",    arguments |-> [url |-> "u"]],
      [tool |-> "playwright_click",       arguments |-> [selector |-> "s"]],
      [tool |-> "playwright_smart_click", arguments |-> [text |-> "t"]],
      [tool |-> "playwright_smart_click", arguments |-> [selector |-> "s"]],
      [tool |-> "playwright_screenshot",  arguments |-> [page_index |-> "0"]],
      [tool |-> "playwright_type",        arguments |-> [selector |-> "s", text |-> "t"]],
      [tool |-> "playwright_clik",        arguments |-> [selector |-> "s"]],
      [tool |-> "browse",                 arguments |-> [url |-> "u"]],
      [tool |-> "cleanup",                arguments |-> [k \in {} |-> None]],  \* {}
      [tool |-> "screenshot_dir",         arguments |-> [page_index |-> "0"]],
      [tool |-> None,                     arguments |-> [url |-> "u"]] }   \* no "tool" key

Plans == UNION { [1..n -> ToolCalls] : n \in 0..MaxPlanLen }

\* Replies of the language model by what the JSON extraction makes of them: an
\* object with a list under 'tool_calls'; no parseable JSON; JSON without the
\* key 'tool_calls'; a 'tool_calls' value that is not a list
Replies == { "tool_calls", "no_json", "no_tool_calls_key", "tool_calls_not_a_list" }

RI  == "run_integrated"
PNL == "process_natural_language"

\* 1-based position of tool_calls[i] for a Python index i (negative: from the end)
Pos(idx) == IF idx >= 0 THEN idx + 1 ELSE Len(tool_calls) + idx + 1

NoError == [msg |-> None, arg |-> None]

\* A trace entry.  "step" is history: the position of the ToolCall it was made for.
Entry(tool, status, error, result, step) ==
    [tool |-> tool, status |-> status, error |-> error, result |-> result,
     recovery |-> None, step |-> step]

\* History of one pass: sub is the substitution the not-found branch chose, or
\* "recovery" for a pass that started a smart-click or screenshot recovery.
LogEntry(outcome, prompted, retry, paused, sub) ==
    [i |-> i, step |-> Pos(i), tool |-> tool_calls[Pos(i)].tool,
     outcome |-> outcome, prompted |-> prompted, retry |-> retry, paused |-> paused,
     sub |-> sub]

Answers == {"y", "n"}

\* The bounded user: at most MaxRetries answers of 'y' per plan.
MayAnswer(a) == a = "n" \/ prompts < MaxRetries

recovery_selectors == << "text=", "button:has-text", "a:has-text", "[role='button']:has-text", "[aria-label*=]" >>

-----------------------------------------------------------------------------
(* run_integrated: the executor loop, one action per pass of the loop.     *)

RI_BeginPlan ==
    /\ executor = RI
    /\ pc = "plan"
    /\ pc' = "loop"
    /\ results' = << >>
    /\ success_count' = 0
    /\ error_recovery_attempts' = 0
    /\ i' = 0
    /\ UNCHANGED << executor, client, reply, tool_calls, ret, invoked, log, prompts, fnVars, toolsVars >>

InLoop == executor = RI /\ pc = "loop"

\* while i < len(tool_calls): false
RI_LoopExit ==
    /\ InLoop
    /\ i >= Len(tool_calls)
    /\ pc' = "done"
    /\ UNCHANGED << executor, client, reply, tool_calls, i, results, success_count,
                    error_recovery_attempts, ret, invoked, log, prompts, fnVars, toolsVars >>

\* tool_calls[i] with i < -len(tool_calls): IndexError, caught at line 1678
RI_IndexError ==
    /\ InLoop
    /\ i < 0 - Len(tool_calls)
    /\ pc' = "error"
    /\ UNCHANGED << executor, client, reply, tool_calls, i, results, success_count,
                    error_recovery_attempts, ret, invoked, log, prompts, fnVars, toolsVars >>

Fetch == InLoop /\ i < Len(tool_calls) /\ i >= 0 - Len(tool_calls)

\* getattr(tools_instance, None, None): TypeError outside the step's try,
\* caught at line 1678 ("Error executing plan"), the plan is abandoned
RI_NoToolName ==
    /\ Fetch
    /\ tool_calls[Pos(i)].tool = None
    /\ pc' = "error"
    /\ log' = Append(log, LogEntry("type_error", FALSE, FALSE, FALSE, None))
    /\ UNCHANGED << executor, client, reply, tool_calls, i, results, success_count,
                    error_recovery_attempts, ret, invoked, prompts, fnVars, toolsVars >>

\* if not tool_method: ... results.append(failed); i += 1; continue
RI_ToolNotFound ==
    /\ Fetch
    /\ tool_calls[Pos(i)].tool # None
    /\ Getattr(tool_calls[Pos(i)].tool) = None
    /\ LET tool_name == tool_calls[Pos(i)].tool
           sub == Substitution(tool_name, error_recovery_attempts)
       IN  /\ tool_calls' = [tool_calls EXCEPT ![Pos(i)].tool = sub.tool]
           /\ error_recovery_attempts' =
                  IF sub.kind = "fallback" THEN error_recovery_attempts + 1
                                           ELSE error_recovery_attempts
           /\ results' = Append(results,
                  Entry(sub.tool, "failed",
                        [msg |-> "Tool not found", arg |-> tool_name], None, Pos(i)))
    /\ i' = i + 1
    /\ log' = Append(log, LogEntry("not_found", FALSE, FALSE, FALSE,
                                  Substitution(tool_calls[Pos(i)].tool, error_recovery_attempts).kind))
    /\ UNCHANGED << executor, client, reply, pc, success_count, ret, invoked, prompts, fnVars, toolsVars >>

Resolved == Fetch /\ tool_calls[Pos(i)].tool # None /\ Getattr(tool_calls[Pos(i)].tool) # None

\* the methods of the Action Registry return a result dict; cleanup returns None
ReturnsResult(name) == name \in Registry

Invocation == [tool |-> tool_calls[Pos(i)].tool, step |-> Pos(i),
               arguments |-> tool_calls[Pos(i)].arguments]

\* result = await tool_method(arguments) returned status 'success'
RI_StepSuccess ==
    /\ Resolved
    /\ ReturnsResult(tool_calls[Pos(i)].tool)
    /\ invoked' = Append(invoked, Invocation)
    /\ results' = Append(results,
           Entry(tool_calls[Pos(i)].tool, "completed", NoError, "success", Pos(i)))
    /\ success_count' = success_count + 1
    /\ log' = Append(log, LogEntry("success", FALSE, FALSE, i < Len(tool_calls) - 1, None))
    /\ i' = i + 1
    /\ UNCHANGED << executor, client, reply, pc, tool_calls, error_recovery_attempts, ret, prompts, fnVars, toolsVars >>

\* The entry appended at lines 1514-1519 for a result whose status is not 'success'
FailedEntry == Entry(tool_calls[Pos(i)].tool, "failed", NoError, "error", Pos(i))

ExceptionEntry ==
    Entry(tool_calls[Pos(i)].tool, "failed", [msg |-> "exception", arg |-> None], None, Pos(i))

ReturnsError == Resolved /\ ReturnsResult(tool_calls[Pos(i)].tool)

\* CanRecover without the budget test
CanRecoverAlways == TRUE

CanRecover == error_recovery_attempts < max_recovery_attempts

\* result.get("status") is not 'success': the failed entry is appended (lines
\* 1514-1519) before any failure handling runs
RI_StepFails ==
    /\ ReturnsError
    /\ pc' = "failed"
    /\ invoked' = Append(invoked, Invocation)
    /\ results' = Append(results, FailedEntry)
    /\ UNCHANGED << executor, client, reply, tool_calls, i, success_count,
                    error_recovery_attempts, ret, log, prompts, fnVars, toolsVars >>

\* inside the else branch of "if success" (line 1529), results[-1] is the entry
\* of this step
Failed == executor = RI /\ pc = "failed"

\* failed smart_click, recovery budget left, no 'text' argument: nothing is tried
RI_SmartClickNoText ==
    /\ Failed
    /\ tool_calls[Pos(i)].tool = "playwright_smart_click"
    /\ CanRecover
    /\ "text" \notin DOMAIN tool_calls[Pos(i)].arguments
    /\ error_recovery_attempts' = error_recovery_attempts + 1
    /\ log' = Append(log, LogEntry("error", FALSE, FALSE, FALSE, "recovery"))
    /\ i' = i + 1
    /\ pc' = "loop"
    /\ UNCHANGED << executor, client, reply, tool_calls, results, success_count, ret,
                    invoked, prompts, fnVars, toolsVars >>

\* failed smart_click with 'text': _get_page at line 1544 raises (browser cannot
\* be initialised); the step's except clause appends a second entry
RI_SmartClickGetPageRaises ==
    /\ Failed
    /\ tool_calls[Pos(i)].tool = "playwright_smart_click"
    /\ CanRecover
    /\ "text" \in DOMAIN tool_calls[Pos(i)].arguments
    /\ results' = Append(results, ExceptionEntry)
    /\ error_recovery_attempts' = error_recovery_attempts + 1
    /\ log' = Append(log, LogEntry("error", FALSE, FALSE, FALSE, "recovery"))
    /\ i' = i + 1
    /\ pc' = "loop"
    /\ UNCHANGED << executor, client, reply, tool_calls, success_count, ret, invoked,
                    prompts, fnVars, toolsVars >>

\* the selector loop without its break: the last selector that clicks wins
TrySelectorsNoBreak(idx, clickable) ==
    IF { k \in clickable : k >= idx } = {} THEN 0
    ELSE CHOOSE k \in clickable : k >= idx /\ \A j \in clickable : j <= k

\* for idx, rec_selector in enumerate(recovery_selectors), from position idx on:
\* the first selector that is visible and clicks ends the loop (break); a
\* selector that is not visible or raises is skipped.  0: none clicked.
RECURSIVE TrySelectors(_, _)
TrySelectors(idx, clickable) ==
    IF idx > Len(recovery_selectors) THEN 0
    ELSE IF idx \in clickable THEN idx
    ELSE TrySelectors(idx + 1, clickable)

\* which of the recovery selectors would be visible and click: none, or one of
\* them together with the last
ClickableSets == { {} } \cup { {a, Len(recovery_selectors)} : a \in 1..Len(recovery_selectors) }

\* failed smart_click with 'text': clickable = the recovery selectors that are
\* visible and click; js = outcome of the DOM-search-and-click script, which runs
\* only if results[-1] is not 'completed' after the selector loop
RI_SmartClickRecovery(clickable, js) ==
    /\ Failed
    /\ tool_calls[Pos(i)].tool = "playwright_smart_click"
    /\ CanRecover
    /\ "text" \in DOMAIN tool_calls[Pos(i)].arguments
    /\ LET hit == TrySelectors(1, clickable)
           js_ran == hit = 0
           recovered == hit > 0 \/ (js_ran /\ js)
           note == IF hit > 0 THEN recovery_selectors[hit]
                   ELSE IF js THEN "Used JavaScript recovery" ELSE None
       IN  /\ js_ran \/ ~js                 \* the outcome of a script that never ran
           /\ results' = IF recovered
                         THEN [results EXCEPT ![Len(results)].status = "completed",
                                              ![Len(results)].recovery = note]
                         ELSE results
           /\ success_count' = IF recovered THEN success_count + 1 ELSE success_count
           /\ log' = Append(log,
                  LogEntry("error", FALSE, FALSE, FALSE, "recovery")
                      @@ [clickable |-> clickable,
                          tried |-> IF hit > 0 THEN hit ELSE Len(recovery_selectors),
                          js_ran |-> js_ran, js |-> js])
    /\ error_recovery_attempts' = error_recovery_attempts + 1
    /\ i' = i + 1
    /\ pc' = "loop"
    /\ UNCHANGED << executor, client, reply, tool_calls, ret, invoked, prompts, fnVars, toolsVars >>

\* failed screenshot, recovery budget left: one option-free page.screenshot
RI_ScreenshotRecovery(ok) ==
    /\ Failed
    /\ tool_calls[Pos(i)].tool = "playwright_screenshot"
    /\ CanRecover
    /\ results' = IF ok
                  THEN [results EXCEPT ![Len(results)].status = "completed",
                                       ![Len(results)].recovery = "Created alternative screenshot",
                                       ![Len(results)].result = "success"]
                  ELSE results
    /\ success_count' = IF ok THEN success_count + 1 ELSE success_count
    /\ error_recovery_attempts' = error_recovery_attempts + 1
    /\ log' = Append(log, LogEntry("error", FALSE, FALSE, FALSE, "recovery"))
    /\ i' = i + 1
    /\ pc' = "loop"
    /\ UNCHANGED << executor, client, reply, tool_calls, ret, invoked, prompts, fnVars, toolsVars >>

\* failed playwright_navigate: retry prompt; 'y' does i -= 1 and continue,
\* which skips the i += 1 at the end of the loop body
RI_NavigateFailed(answer) ==
    /\ Failed
    /\ tool_calls[Pos(i)].tool = "playwright_navigate"
    /\ MayAnswer(answer)
    /\ log' = Append(log, LogEntry("error", TRUE, answer = "y", FALSE, None))
    /\ i' = IF answer = "y" THEN i - 1 ELSE i + 1
    /\ prompts' = IF answer = "y" THEN prompts + 1 ELSE prompts
    /\ pc' = "loop"
    /\ UNCHANGED << executor, client, reply, tool_calls, results, success_count,
                    error_recovery_attempts, ret, invoked, fnVars, toolsVars >>

\* any other failed step: recorded, the loop goes on
RI_StepFailedOther ==
    /\ Failed
    /\ LET t == tool_calls[Pos(i)].tool
       IN  /\ t # "playwright_navigate"
           /\ t \in {"playwright_smart_click", "playwright_screenshot"} => ~CanRecover
    /\ log' = Append(log, LogEntry("error", FALSE, FALSE, FALSE, None))
    /\ i' = i + 1
    /\ pc' = "loop"
    /\ UNCHANGED << executor, client, reply, tool_calls, results, success_count,
                    error_recovery_attempts, ret, invoked, prompts, fnVars, toolsVars >>

\* the step raises (a data attribute is not callable; result.get on the None that
\* cleanup returns; a browser error inside a registry method): except clause at
\* lines 1643-1655, then i += 1 at line 1658
RI_StepRaises(answer) ==
    /\ Resolved
    /\ MayAnswer(answer)
    /\ tool_calls[Pos(i)].tool # "playwright_navigate" => answer = "n"   \* no prompt
    /\ invoked' = IF Callable(tool_calls[Pos(i)].tool) THEN Append(invoked, Invocation)
                                                       ELSE invoked
    /\ results' = Append(results, ExceptionEntry)
    /\ log' = Append(log, LogEntry("raise", tool_calls[Pos(i)].tool = "playwright_navigate",
                                   answer = "y", FALSE, None))
    /\ i' = IF answer = "y" THEN (i - 1) + 1 ELSE i + 1
    /\ prompts' = IF answer = "y" THEN prompts + 1 ELSE prompts
    /\ UNCHANGED << executor, client, reply, pc, tool_calls, success_count,
                    error_recovery_attempts, ret, fnVars, toolsVars >>

-----------------------------------------------------------------------------
(* MCPClient.process_natural_language.                                     *)
(*                                                                         *)
(* The function body contains "import re" (line 1101) and "import time"    *)
(* (line 1133), so both names are local to the function for its whole      *)
(* body and are unbound until those lines run.  Line 787 reads time before *)
(* either import has run.                                                  *)

LocalImports == { "re", "time" }

\* names bound in the function's frame when line 787 is reached
BoundAtLine787 == { "self", "prompt", "server", "available_tools", "dynamic_system_prompt" }

InCall == executor = PNL /\ pc = "plan"

PNL_Return(message) ==
    /\ pc' = "returned"
    /\ ret' = [status |-> "error", message |-> message, raw_response |-> None]
    /\ UNCHANGED << executor, client, reply, tool_calls, i, results, success_count,
                    error_recovery_attempts, invoked, log, prompts, fnVars, toolsVars >>

\* if not self.session
PNL_NoSession ==
    /\ InCall
    /\ ~client.session
    /\ PNL_Return("Session not initialized")

\* if not self.llm_client
PNL_NoLLMClient ==
    /\ InCall
    /\ client.session /\ ~client.llm_client
    /\ PNL_Return("LLM client not initialized")

\* if not server
PNL_NoServer ==
    /\ InCall
    /\ client.session /\ client.llm_client /\ ~client.server
    /\ PNL_Return("Server not provided")

\* timestamp = int(time.time()): UnboundLocalError, caught by the outer
\* "except Exception as e" (line 1215), which returns an error without a trace
PNL_BuildPrompt ==
    /\ InCall
    /\ client.session /\ client.llm_client /\ client.server
    /\ "time" \in LocalImports /\ "time" \notin BoundAtLine787
    /\ PNL_Return("UnboundLocalError: time")

-----------------------------------------------------------------------------
(* Parameter adaptation: pure functions on strings and keyword maps.       *)
(* A keyword map (kwargs) is a function from parameter names to values;    *)
(* a string value is a character sequence, None is NoneS.                  *)

NoneS == << None >>

Whitespace == { " ", "\n" }

\* str.strip()
RECURSIVE LStrip(_)
LStrip(s) == IF s # << >> /\ Head(s) \in Whitespace THEN LStrip(Tail(s)) ELSE s

RECURSIVE RStrip(_)
RStrip(s) ==
    IF s # << >> /\ s[Len(s)] \in Whitespace THEN RStrip(SubSeq(s, 1, Len(s) - 1)) ELSE s

Strip(s) == RStrip(LStrip(s))

\* str.lower() on the letters the model uses
LowerChar(c) == CASE c = "P" -> "p" [] c = "N" -> "n" [] c = "G" -> "g" [] c = "X" -> "x"
                  [] c = "E" -> "e" [] c = "I" -> "i" [] c = "T" -> "t"
                  [] c = "Q" -> "q" [] c = "U" -> "u"
                  [] OTHER -> c

Lower(s) == [k \in 1..Len(s) |-> LowerChar(s[k])]

\* first position >= k of s holding a character of set Q, or 0
RECURSIVE FirstOf(_, _, _)
FirstOf(s, Q, k) ==
    IF k > Len(s) THEN 0
    ELSE IF s[k] \in Q THEN k ELSE FirstOf(s, Q, k + 1)

\* re.search(prefix + [open] + ([^stop]+) + [stop] + closer, s) anchored at k:
\* the group runs to the first character of stop, must be non-empty, and the
\* closer must follow.  open = {} means the prefix already ends with the quote.
GroupEndAt(s, prefix, open, stop, closer, k) ==
    LET g == k + Len(prefix) + (IF open = {} THEN 0 ELSE 1)      \* group start
        q == FirstOf(s, stop, g)
    IN  IF /\ OccursAt(s, prefix, k)
           /\ (open # {} => (g - 1 <= Len(s) /\ s[g - 1] \in open))
           /\ q > g
           /\ q + 1 <= Len(s)
           /\ s[q + 1] = closer
        THEN q ELSE 0

RECURSIVE SearchFrom(_, _, _, _, _, _)
SearchFrom(s, prefix, open, stop, closer, k) ==
    IF k > Len(s) THEN NoneS
    ELSE LET q == GroupEndAt(s, prefix, open, stop, closer, k)
             g == k + Len(prefix) + (IF open = {} THEN 0 ELSE 1)
         IN  IF q # 0 THEN SubSeq(s, g, q - 1)
             ELSE SearchFrom(s, prefix, open, stop, closer, k + 1)

HAS_TEXT_PREFIX == <<":","h","a","s","-","t","e","x","t","(","'">>

TEXT_PREFIX == <<":","t","e","x","t","(">>

LABEL_PREFIX == <<"[","a","r","i","a","-","l","a","b","e","l","=">>

ARIA_LABEL == <<"a","r","i","a","-","l","a","b","e","l">>

PNG == <<".","p","n","g">>

RETURN == <<"r","e","t","u","r","n">>

ARROW0 == <<"(",")"," ","=",">">>

FUNCTION == <<"f","u","n","c","t","i","o","n">>

ARROW == <<"=",">">>

SCREENSHOT_ == <<"s","c","r","e","e","n","s","h","o","t","_">>

Quotes == { "'", "\"" }

\* re.search(r":has-text\('([^']+)'\)", selector).group(1), or NoneS
has_text_match(selector) ==
    SearchFrom(selector, HAS_TEXT_PREFIX, {}, {"'"}, ")", 1)

\* re.search(r":text\(['\"]([^'\"]+)['\"]\)", selector).group(1), or NoneS
text_match(selector) ==
    SearchFrom(selector, TEXT_PREFIX, Quotes, Quotes, ")", 1)

\* re.search(r"\[aria-label=['\"]([^'\"]+)['\"]\]", selector).group(1), or NoneS
label_match(selector) ==
    SearchFrom(selector, LABEL_PREFIX, Quotes, Quotes, "]", 1)

\* kwargs.pop(key) and kwargs[key] = v
Without(kw, key) == [k \in DOMAIN kw \ {key} |-> kw[k]]

With(kw, key, v) == [k \in DOMAIN kw \cup {key} |-> IF k = key THEN v ELSE kw[k]]

\* The if / elif chain shared by the two adapter modules (no else branch):
\* the extracted text, or NoneS
ExtractText(selector) ==
    IF has_text_match(selector) # NoneS THEN has_text_match(selector)
    ELSE IF Contains(selector, TEXT_PREFIX) THEN text_match(selector)
    ELSE IF Contains(selector, ARIA_LABEL) THEN label_match(selector)
    ELSE NoneS

\* param_adapter.adapt_smart_click: the kwargs handed to original_func
param_adapter_adapt_smart_click(kwargs) ==
    IF "selector" \in DOMAIN kwargs /\ "text" \notin DOMAIN kwargs
    THEN LET selector == kwargs.selector
             text == ExtractText(selector)
         IN  With(Without(kwargs, "selector"), "text",
                  IF text = NoneS \/ text = << >> THEN selector ELSE text)
    ELSE kwargs

\* playwright_adapter.adapt_smart_click: original_func(text=text, **kwargs)
playwright_adapter_adapt_smart_click(kwargs) ==
    IF "selector" \in DOMAIN kwargs /\ "text" \notin DOMAIN kwargs
    THEN LET selector == kwargs.selector
             text == ExtractText(selector)
         IN  With(Without(kwargs, "selector"), "text",
                  IF text = NoneS \/ text = << >> THEN selector ELSE text)
    ELSE kwargs

\* The chain of patched_smart_click and PlaywrightTools.playwright_smart_click:
\* the raw selector is used only in the final else branch
ExtractTextElse(selector) ==
    IF has_text_match(selector) # NoneS THEN has_text_match(selector)
    ELSE IF Contains(selector, TEXT_PREFIX) THEN text_match(selector)
    ELSE IF Contains(selector, ARIA_LABEL) THEN label_match(selector)
    ELSE selector

Param(kwargs, key) == IF key \in DOMAIN kwargs THEN kwargs[key] ELSE NoneS

\* patched_smart_click(text=None, selector=None, ...): the params handed to the
\* original smart_click (the parameters with fixed defaults are left out)
patched_smart_click(kwargs) ==
    LET text == Param(kwargs, "text")
        selector == Param(kwargs, "selector")
    IN  [text |-> IF selector # NoneS /\ text = NoneS THEN ExtractTextElse(selector)
                                                      ELSE text]

ERROR == <<"e","r","r","o","r">>

\* PlaywrightTools.playwright_smart_click(text=None, selector=None, ...): the text
\* the click strategies are built from, or the error result of line 2561
playwright_smart_click(kwargs) ==
    LET text0 == Param(kwargs, "text")
        selector == Param(kwargs, "selector")
        text == IF selector # NoneS /\ text0 = NoneS THEN ExtractTextElse(selector)
                                                     ELSE text0
    IN  IF text = NoneS THEN [status |-> ERROR] ELSE [text |-> text]

\* Python's "not x" for None and for a string
Falsy(x) == x = NoneS \/ x = << >>

\* the named parameters of patched_fill; any other keyword lands in **kwargs
FillParameters == { "selector", "value", "text", "page_index", "timeout" }

\* A patched_fill that does not take value for text.
patched_fill_without_conversion(kwargs) ==
    LET selector == Param(kwargs, "selector")
        text == Param(kwargs, "text")
        timeout == Param(kwargs, "timeout")
        page_index == IF "page_index" \in DOMAIN kwargs THEN kwargs.page_index ELSE <<"0">>
        params == [selector |-> selector, text |-> text, page_index |-> page_index]
        timed == IF ~Falsy(timeout) THEN With(params, "timeout", timeout) ELSE params
        extra == DOMAIN kwargs \ FillParameters
    IN  IF Falsy(selector) \/ Falsy(text) THEN [called |-> FALSE, status |-> ERROR]
        ELSE [called |-> TRUE,
              params |-> [k \in DOMAIN timed \cup extra |->
                            IF k \in extra THEN kwargs[k] ELSE timed[k]]]

\* patched_fill(selector=None, value=None, text=None, page_index=0,
\* timeout=None, **kwargs), lines 339-393: the error result, or the params
\* handed to the original fill.
patched_fill(kwargs) ==
    LET selector == Param(kwargs, "selector")
        value == Param(kwargs, "value")
        text0 == Param(kwargs, "text")
        text == IF value # NoneS /\ text0 = NoneS THEN value ELSE text0
        timeout == Param(kwargs, "timeout")
        page_index == IF "page_index" \in DOMAIN kwargs THEN kwargs.page_index ELSE <<"0">>
        params == [selector |-> selector, text |-> text, page_index |-> page_index]
        timed == IF ~Falsy(timeout) THEN With(params, "timeout", timeout) ELSE params
        extra == DOMAIN kwargs \ FillParameters
    IN  IF Falsy(selector) THEN [called |-> FALSE, status |-> ERROR]
        ELSE IF Falsy(text) THEN [called |-> FALSE, status |-> ERROR]
        ELSE [called |-> TRUE,
              params |-> [k \in DOMAIN timed \cup extra |->
                            IF k \in extra THEN kwargs[k] ELSE timed[k]]]

\* f"screenshot_{int(time.time())}.png", now = the digits of int(time.time())
default_filename(now) == SCREENSHOT_ \o now \o PNG

\* param_adapter.adapt_screenshot: the kwargs handed to original_func
param_adapter_adapt_screenshot(kwargs, now) ==
    LET kw1 == IF "filename" \notin DOMAIN kwargs
               THEN With(kwargs, "filename", default_filename(now))
               ELSE kwargs
    IN  IF ~EndsWith(kw1.filename, PNG)
        THEN [kw1 EXCEPT !.filename = @ \o PNG]
        ELSE kw1

\* playwright_adapter.adapt_screenshot
playwright_adapter_adapt_screenshot(kwargs, now) ==
    LET kw1 == IF "filename" \notin DOMAIN kwargs
               THEN With(kwargs, "filename", default_filename(now))
               ELSE kwargs
    IN  IF ~EndsWith(kw1.filename, PNG)
        THEN [kw1 EXCEPT !.filename = @ \o PNG]
        ELSE kw1

\* patched_screenshot with the extension test dropped: '.png' is always appended
patched_screenshot_always_append(kwargs, now) ==
    LET f0 == Param(kwargs, "filename")
        f1 == IF f0 = NoneS THEN default_filename(now) ELSE f0
    IN  [filename |-> f1 \o PNG,
         page_index |-> IF "page_index" \in DOMAIN kwargs THEN kwargs.page_index ELSE <<"0">>]

\* patched_screenshot(filename=None, ..., page_index=0, ...): the params handed to
\* the original screenshot (parameters left at their defaults are not passed)
patched_screenshot(kwargs, now) ==
    LET f0 == Param(kwargs, "filename")
        f1 == IF f0 = NoneS THEN default_filename(now) ELSE f0
        f2 == IF ~EndsWith(Lower(f1), PNG) THEN f1 \o PNG ELSE f1
    IN  [filename |-> f2,
         page_index |-> IF "page_index" \in DOMAIN kwargs THEN kwargs.page_index ELSE <<"0">>]

\* PlaywrightTools.playwright_screenshot(filename, ...), lines 1757-1762: the
\* filename the screenshot path is built from
playwright_screenshot(kwargs) ==
    [filename |-> IF ~EndsWith(kwargs.filename, PNG) THEN kwargs.filename \o PNG
                                                     ELSE kwargs.filename]

WRAP_OPEN == <<"(",")"," ","=",">"," ","{"," ">>

WRAP_CLOSE == <<" ","}">>

\* is_function of patched_evaluate
is_function(actual_script) ==
    \/ StartsWith(Strip(actual_script), ARROW0)
    \/ StartsWith(Strip(actual_script), FUNCTION)
    \/ (StartsWith(Strip(actual_script), <<"(">>) /\ Contains(actual_script, ARROW))

\* the wrapping test of patched_evaluate, line 266
needs_wrapping(actual_script) ==
    ~is_function(actual_script) /\ Contains(actual_script, RETURN)

\* patched_evaluate(script=None, page_index=0, pageFunction=None): the script
\* handed to the evaluator, or the error result of lines 250-255
patched_evaluate(kwargs) ==
    LET script == Param(kwargs, "script")
        pageFunction == Param(kwargs, "pageFunction")
        actual_script == IF script # NoneS /\ script # << >> THEN script ELSE pageFunction
    IN  IF actual_script = NoneS THEN [status |-> ERROR]
        ELSE [script |-> IF needs_wrapping(actual_script)
                         THEN WRAP_OPEN \o actual_script \o WRAP_CLOSE
                         ELSE actual_script]

-----------------------------------------------------------------------------
(* Inputs of the adaptations: strings built from the fragments the code    *)
(* looks for, and the keyword maps a plan step can carry.                  *)

RECURSIVE ConcatsOf(_, _)
ConcatsOf(F, n) ==
    IF n = 0 THEN { << >> }
    ELSE LET prev == ConcatsOf(F, n - 1)
         IN  prev \cup { p \o f : p \in prev, f \in F }

\* return, blank, x, () =>, function, (, =>, ;
ScriptFragments ==
    { <<"r","e","t","u","r","n">>,
      <<" ">>,
      <<"x">>,
      <<"(",")"," ","=",">">>,
      <<"f","u","n","c","t","i","o","n">>,
      <<"(">>,
      <<"=",">">>,
      <<";">> }

\* the three full patterns, their partial forms, a quote and plain text
SelectorFragments ==
    { <<":","h","a","s","-","t","e","x","t","(","'","A","'",")">>,
      <<":","t","e","x","t","(","\"","B","\"",")">>,
      <<"[","a","r","i","a","-","l","a","b","e","l","=","\"","C","\"","]">>,
      <<":","t","e","x","t","(">>,
      <<"a","r","i","a","-","l","a","b","e","l">>,
      <<"a">>,
      <<"'">>,
      <<":","h","a","s","-","t","e","x","t","(","'">> }

FilenameFragments ==
    { <<"a">>,
      <<".","p","n","g">>,
      <<".","P","N","G">>,
      <<".">>,
      <<"p","n","g">> }

Scripts == ConcatsOf(ScriptFragments, MaxFrags)

Selectors == ConcatsOf(SelectorFragments, MaxFrags)

Filenames == ConcatsOf(FilenameFragments, MaxFrags)

\* digits of int(time.time())
Nows == { <<"1">>, <<"1","7">> }

OK == <<"O","K">>

EvaluateInputs ==
    { [script |-> x] : x \in Scripts }
        \cup { [pageFunction |-> x] : x \in ConcatsOf(ScriptFragments, 1) }
        \cup { [script |-> x, pageFunction |-> <<"x">>] : x \in ConcatsOf(ScriptFragments, 1) }
        \cup { [page_index |-> <<"0">>] }

SmartClickInputs ==
    { [selector |-> x] : x \in Selectors }
        \cup { [selector |-> x, text |-> OK] : x \in ConcatsOf(SelectorFragments, 1) }
        \cup { [text |-> OK], [page_index |-> <<"0">>] }

ScreenshotInputs ==
    { [filename |-> x] : x \in Filenames } \cup { [page_index |-> <<"0">>] }

SmartClickAdaptations ==
    { "param_adapter.adapt_smart_click", "playwright_adapter.adapt_smart_click",
      "patched_smart_click", "PlaywrightTools.playwright_smart_click" }

ScreenshotAdaptations ==
    { "param_adapter.adapt_screenshot", "playwright_adapter.adapt_screenshot",
      "patched_screenshot", "PlaywrightTools.playwright_screenshot" }

\* one call of an adaptation: its input and what it hands on
Called(name, kwargs, out) ==
    /\ pc = "adapt"
    /\ fn.pass = 0
    /\ fn' = [name |-> name, pass |-> 1]
    /\ fn_in' = kwargs
    /\ fn_out' = out
    /\ UNCHANGED << execVars, toolsVars >>

Call_patched_evaluate ==
    /\ fn.pass = 0
    /\ \E kwargs \in EvaluateInputs :
           Called("patched_evaluate", kwargs, patched_evaluate(kwargs))

Call_param_adapter_adapt_smart_click ==
    /\ fn.pass = 0
    /\ \E kwargs \in SmartClickInputs :
           Called("param_adapter.adapt_smart_click", kwargs,
                  param_adapter_adapt_smart_click(kwargs))

Call_playwright_adapter_adapt_smart_click ==
    /\ fn.pass = 0
    /\ \E kwargs \in SmartClickInputs :
           Called("playwright_adapter.adapt_smart_click", kwargs,
                  playwright_adapter_adapt_smart_click(kwargs))

Call_patched_smart_click ==
    /\ fn.pass = 0
    /\ \E kwargs \in SmartClickInputs :
           Called("patched_smart_click", kwargs, patched_smart_click(kwargs))

Call_playwright_smart_click ==
    /\ fn.pass = 0
    /\ \E kwargs \in SmartClickInputs :
           Called("PlaywrightTools.playwright_smart_click", kwargs,
                  playwright_smart_click(kwargs))

Call_param_adapter_adapt_screenshot ==
    /\ fn.pass = 0
    /\ \E kwargs \in ScreenshotInputs, now \in Nows :
           Called("param_adapter.adapt_screenshot", kwargs,
                  param_adapter_adapt_screenshot(kwargs, now))

Call_playwright_adapter_adapt_screenshot ==
    /\ fn.pass = 0
    /\ \E kwargs \in ScreenshotInputs, now \in Nows :
           Called("playwright_adapter.adapt_screenshot", kwargs,
                  playwright_adapter_adapt_screenshot(kwargs, now))

Call_patched_screenshot ==
    /\ fn.pass = 0
    /\ \E kwargs \in ScreenshotInputs, now \in Nows :
           Called("patched_screenshot", kwargs, patched_screenshot(kwargs, now))

\* filename is a required parameter of PlaywrightTools.playwright_screenshot
Call_playwright_screenshot ==
    /\ fn.pass = 0
    /\ \E kwargs \in { k \in ScreenshotInputs : "filename" \in DOMAIN k } :
           Called("PlaywrightTools.playwright_screenshot", kwargs,
                  playwright_screenshot(kwargs))

\* second adaptation pass: the same adaptation applied to what it handed on
Readapt(now) ==
    /\ pc = "adapt"
    /\ fn.pass = 1
    /\ fn.name \in ScreenshotAdaptations
    /\ fn' = [fn EXCEPT !.pass = 2]
    /\ fn_in' = fn_out
    /\ fn_out' =
         CASE fn.name = "param_adapter.adapt_screenshot" ->
                  param_adapter_adapt_screenshot(fn_out, now)
           [] fn.name = "playwright_adapter.adapt_screenshot" ->
                  playwright_adapter_adapt_screenshot(fn_out, now)
           [] fn.name = "patched_screenshot" -> patched_screenshot(fn_out, now)
           [] fn.name = "PlaywrightTools.playwright_screenshot" -> playwright_screenshot(fn_out)
    /\ UNCHANGED << execVars, toolsVars >>

-----------------------------------------------------------------------------
(* PlaywrightTools: the browser session (src/exp_tools.py).                *)
(*                                                                         *)
(* Handles are positive numbers handed out by the browser library in the   *)
(* order of creation; NoHandle stands for Python's None in a handle field. *)
(* world.browsers[b] tells whether browser b is open, world.contexts[c] is *)
(* the browser of context c, world.pages[p] is the context of page p and   *)
(* world.closed holds the pages that were closed one by one.               *)

NoHandle == 0

MaxHandles == 3

MaxAttempts == 2

\* The calls into the browser library that an operation can see fail.
\* "screenshot" fails the first page.screenshot of an attempt, "screenshots"
\* every one of them.
LibraryCalls ==
    { "start", "stop", "launch", "close", "new_context", "new_page",
      "is_closed", "close_page", "click", "screenshot", "screenshots",
      "wait_for_load_state", "evaluate" }

Failures == { {} } \cup { {c} : c \in LibraryCalls }

\* PlaywrightTools.__init__ and a library in which nothing has been started.
ToolsConstructed ==
    /\ tools = [playwright |-> NoHandle, browser |-> NoHandle, context |-> NoHandle,
                pages |-> << >>, browser_initialized |-> FALSE]
    /\ world = [playwrights |-> << >>, browsers |-> << >>, contexts |-> << >>,
                pages |-> << >>, closed |-> {}]
    /\ tool_ret = [op |-> None, outcome |-> None, value |-> None, status |-> None,
                   message |-> FALSE, close_failed |-> FALSE]

OpenBrowsers(w) == { b \in 1..Len(w.browsers) : w.browsers[b] = "open" }

\* Page.is_closed()
IsClosed(w, page) ==
    \/ page \in w.closed
    \/ w.browsers[w.contexts[w.pages[page]]] # "open"

ContextClosed(st) ==
    \/ st.t.context = NoHandle
    \/ st.w.browsers[st.w.contexts[st.t.context]] # "open"

\* What an operation hands on: the instance, the library, whether it raised,
\* and the page it found.
Ok(st) == [st EXCEPT !.raised = FALSE]

Raise(st) == [st EXCEPT !.raised = TRUE]

Flag(st, b) == [st EXCEPT !.t.browser_initialized = b]

\* async_playwright().start()
StartPlaywright(st) ==
    [st EXCEPT !.w.playwrights = Append(@, "started"),
               !.t.playwright = Len(st.w.playwrights) + 1]

\* self.playwright.stop()
StopPlaywright(st) ==
    IF st.t.playwright = NoHandle THEN st
    ELSE [st EXCEPT !.w.playwrights[st.t.playwright] = "stopped"]

\* self.playwright.chromium.launch(...) cannot work without a started playwright
LaunchFails(st, fail) ==
    \/ "launch" \in fail
    \/ st.t.playwright = NoHandle
    \/ st.w.playwrights[st.t.playwright] # "started"

\* self.browser = await self.playwright.chromium.launch(headless=False)
Launch(st) ==
    [st EXCEPT !.w.browsers = Append(@, "open"),
               !.t.browser = Len(st.w.browsers) + 1]

\* self.browser.close(): closing takes the browser's contexts and pages along
CloseBrowser(st) ==
    IF st.t.browser = NoHandle THEN st
    ELSE [st EXCEPT !.w.browsers[st.t.browser] = "closed"]

NewContextFails(st, fail) ==
    \/ "new_context" \in fail
    \/ st.t.browser = NoHandle
    \/ st.w.browsers[st.t.browser] # "open"

\* self.context = await self.browser.new_context(...)
NewContext(st) ==
    [st EXCEPT !.w.contexts = Append(@, st.t.browser),
               !.t.context = Len(st.w.contexts) + 1]

NewPageFails(st, fail) ==
    \/ "new_page" \in fail
    \/ ContextClosed(st)

\* page = await self.context.new_page()
NewPage(st) ==
    [st EXCEPT !.w.pages = Append(@, st.t.context),
               !.page = Len(st.w.pages) + 1]

\* self.pages.append(page)
AppendPage(st) == [st EXCEPT !.t.pages = Append(@, st.page)]

\* Lines 82-153: nothing to do once the flag is set; otherwise launch, make a
\* context, set the flag, and make the first page when the list is empty.  Any
\* failure clears the flag and is raised again; what was launched before the
\* failure stays as it is.
_ensure_browser_initialized(st, fail) ==
    IF st.t.browser_initialized THEN Ok(st)
    ELSE IF LaunchFails(st, fail) THEN Raise(Flag(st, FALSE))
    ELSE LET launched == Launch(st) IN
         IF NewContextFails(launched, fail) THEN Raise(Flag(launched, FALSE))
         ELSE LET ready == Flag(NewContext(launched), TRUE) IN
              IF Len(ready.t.pages) # 0 THEN Ok(ready)
              ELSE IF NewPageFails(ready, fail) THEN Raise(Flag(ready, FALSE))
              ELSE Ok(AppendPage(NewPage(ready)))

RECURSIVE GrowPages(_, _, _)
\* Lines 164-175: while len(self.pages) <= page_index: append a new page.
GrowPages(st, page_index, fail) ==
    IF Len(st.t.pages) > page_index
    THEN Ok([st EXCEPT !.page = st.t.pages[page_index + 1]])
    ELSE IF NewPageFails(st, fail) THEN Raise(st)
    ELSE GrowPages(AppendPage(NewPage(st)), page_index, fail)

\* Lines 155-175.
_get_page(st, page_index, fail) ==
    IF page_index < 0 THEN Ok([st EXCEPT !.page = NoHandle])
    ELSE LET ensured == _ensure_browser_initialized(st, fail) IN
         IF ensured.raised THEN ensured
         ELSE GrowPages(ensured, page_index, fail)

\* What an operation gives back to its caller.
Mapping(status) ==
    [outcome |-> "returned", value |-> "mapping", status |-> status, message |-> TRUE]

ReturnedNone ==
    [outcome |-> "returned", value |-> "None", status |-> None, message |-> FALSE]

ReturnedBool(b) ==
    [outcome |-> "returned", value |-> IF b THEN "True" ELSE "False",
     status |-> None, message |-> FALSE]

Raised ==
    [outcome |-> "raised", value |-> None, status |-> None, message |-> FALSE]

Done(st, r) == [t |-> st.t, w |-> st.w, ret |-> r]

Now == [t |-> tools, w |-> world, raised |-> FALSE, page |-> NoHandle]

\* Lines 1651-1666: close the browser held, launch another one and give it a
\* context; the first failure ends the attempt (except ... : print).
RecreateBrowser(st, fail) ==
    IF st.t.browser # NoHandle /\ "close" \in fail THEN st
    ELSE LET closed == CloseBrowser(st) IN
         IF LaunchFails(closed, fail) THEN closed
         ELSE LET launched == Launch(closed) IN
              IF NewContextFails(launched, fail) THEN launched
              ELSE Flag(NewContext(launched), TRUE)

\* Lines 1728-1748: close the browser, stop playwright, start all over with one
\* new page; the first failure ends the attempt (except ... : print).
FullReset(st, fail) ==
    IF st.t.browser # NoHandle /\ "close" \in fail THEN st
    ELSE LET closed == CloseBrowser(st) IN
         IF closed.t.playwright # NoHandle /\ "stop" \in fail THEN closed
         ELSE LET stopped == StopPlaywright(closed) IN
              IF "start" \in fail THEN stopped
              ELSE LET started == StartPlaywright(stopped) IN
                   IF LaunchFails(started, fail) THEN started
                   ELSE LET launched == Launch(started) IN
                        IF NewContextFails(launched, fail) THEN launched
                        ELSE LET ready == Flag(NewContext(launched), TRUE) IN
                             IF NewPageFails(ready, fail) THEN ready
                             ELSE LET made == NewPage(ready) IN
                                  [made EXCEPT !.t.pages = << made.page >>]

\* Lines 1694-1698: replace the page at page_index or append the new one.
PutPage(st, page_index) ==
    IF page_index < Len(st.t.pages)
    THEN [st EXCEPT !.t.pages[page_index + 1] = st.page]
    ELSE AppendPage(st)

FirstShotFails(fail) == "screenshot" \in fail \/ "screenshots" \in fail

RECURSIVE ScreenshotAttempts(_, _, _, _)
\* Lines 1607-1899, the loop  while attempt_count < max_attempts  with one
\* entry of fails per pass.  A pass that is not the last one goes round again
\* after a failure, the last pass returns; a loop that never runs or runs out
\* falls off the end of the function.
ScreenshotAttempts(st, attempt_count, in, fails) ==
    IF ~(attempt_count < in.max_attempts)
    THEN Done(st, [attempts |-> attempt_count] @@ ReturnedNone)
    ELSE
    LET n == attempt_count + 1
        last == n = in.max_attempts
        fail == fails[n]
        again(s) == ScreenshotAttempts(s, n, in, fails)
        \* a return in pass n; attempts is history
        done(s, r) == Done(s, [attempts |-> n] @@ r)
        giveup(s) == IF last THEN done(s, Mapping("error")) ELSE again(s)
        \* lines 1871-1899: except Exception as e
        unexpected(s) ==
            IF ~last THEN again(s)
            ELSE IF s.page # NoHandle /\ ~IsClosed(s.w, s.page) /\ ~FirstShotFails(fail)
                 THEN done(s, Mapping("partial_success"))
                 ELSE done(s, Mapping("error"))
        \* lines 1757-1868: the file name, then the picture
        shoot(s) ==
            IF ~in.filename_is_str THEN unexpected(s)
            ELSE IF in.selector
                 THEN IF FirstShotFails(fail) THEN giveup(s)
                      ELSE done(s, Mapping("success"))
                 ELSE IF ~FirstShotFails(fail) THEN done(s, Mapping("success"))
                      ELSE IF ~last THEN again(s)
                      ELSE IF "screenshots" \in fail THEN done(s, Mapping("error"))
                      ELSE done(s, Mapping("success"))
        \* lines 1717-1754: except Exception as page_err
        page_err(s) ==
            IF last THEN done(s, Mapping("error"))
            ELSE IF n = in.max_attempts - 1 THEN again(FullReset(s, fail))
            ELSE again(s)
        \* lines 1688-1715: a new page in place of the closed one
        new_page(s) ==
            IF NewPageFails(s, fail) THEN giveup(s)
            ELSE shoot(PutPage(NewPage(s), in.page_index))
        \* lines 1645-1686: the page is closed
        closed_page(s) ==
            IF "is_closed" \in fail THEN page_err(s)
            ELSE IF ~ContextClosed(s) THEN new_page(s)
            ELSE IF ~NewContextFails(s, fail) THEN new_page(NewContext(s))
            ELSE IF last THEN done(s, Mapping("error"))
            ELSE again(RecreateBrowser(s, fail))
        \* lines 1635-1643
        with_page(s) ==
            IF s.raised THEN page_err(s)
            ELSE IF s.page = NoHandle THEN giveup(s)
            ELSE IF IsClosed(s.w, s.page) THEN closed_page(s)
            ELSE shoot(s)
        \* lines 1616-1633
        ensured == IF st.t.browser_initialized THEN Ok(st)
                   ELSE _ensure_browser_initialized(st, fail)
    IN  IF ensured.raised THEN giveup(Ok(ensured))
        ELSE with_page(_get_page(ensured, in.page_index, fail))

\* The failures playwright_screenshot can meet, and one of them per pass of the loop.
ScreenshotFailures ==
    { {} } \cup { {c} : c \in { "start", "stop", "launch", "close", "new_context",
                                "new_page", "is_closed", "screenshot", "screenshots" } }

FailureLists(len) == [1..len -> ScreenshotFailures]

ScreenshotCalls ==
    [max_attempts : 0..MaxAttempts, page_index : {-1, 0},
     filename_is_str : BOOLEAN, selector : BOOLEAN]

\* The library has room for what one more operation can create.
Room ==
    /\ Len(world.playwrights) < MaxHandles
    /\ Len(world.browsers) < MaxHandles
    /\ Len(world.pages) < MaxHandles

Returns(op, done) ==
    /\ tools' = done.t
    /\ world' = done.w
    /\ tool_ret' = [op |-> op, close_failed |-> FALSE] @@ done.ret
    /\ UNCHANGED << execVars, fnVars >>

\* Lines 62-80: start playwright, then try to have a browser ready.
T_initialize ==
    /\ Room
    /\ \E fail \in Failures :
           IF "start" \in fail
           THEN Returns("initialize", Done(Now, ReturnedBool(FALSE)))
           ELSE Returns("initialize",
                        Done(_ensure_browser_initialized(StartPlaywright(Now), fail),
                             ReturnedBool(TRUE)))

RECURSIVE ClosePages(_, _, _)
\* Lines 181-186: page.close() for every page of the list that is not closed.
ClosePages(w, pages, fail) ==
    IF pages = << >> THEN w
    ELSE LET page == Head(pages)
             closes == ~IsClosed(w, page) /\ "close_page" \notin fail
         IN  ClosePages(IF closes THEN [w EXCEPT !.closed = @ \cup {page}] ELSE w,
                        Tail(pages), fail)

\* A cleanup that gives the browser up: the flag is cleared with the pages.
cleanup_forgetting_browser(st, fail) ==
    [st EXCEPT !.w = ClosePages(st.w, st.t.pages, fail), !.t.pages = << >>,
               !.t.browser_initialized = FALSE]

\* Lines 177-200: close the pages, empty the list, keep everything else.
cleanup(st, fail) ==
    [st EXCEPT !.w = ClosePages(st.w, st.t.pages, fail), !.t.pages = << >>]

\* tool_ret.close_failed notes that a page.close() raised (lines 185-186).
T_cleanup ==
    /\ \E fail \in { {}, {"close_page"} } :
           LET done == cleanup(Now, fail) IN
           /\ tools' = done.t
           /\ world' = done.w
           /\ tool_ret' = [op |-> "cleanup",
                           close_failed |-> \E k \in 1..Len(tools.pages) :
                                                ~IsClosed(done.w, tools.pages[k])]
                          @@ ReturnedNone
    /\ UNCHANGED << execVars, fnVars >>

\* Lines 1901-1977: the page is fetched outside the try block.
playwright_click(st, page_index, fail) ==
    LET got == _get_page(st, page_index, fail) IN
    IF got.raised THEN Done(got, Raised)
    ELSE IF got.page = NoHandle THEN Done(got, Mapping("error"))
    ELSE IF "click" \in fail \/ IsClosed(got.w, got.page) THEN Done(got, Mapping("error"))
    ELSE Done(got, Mapping("success"))

T_playwright_click ==
    /\ Room
    /\ \E page_index \in {-1, 0, 1}, fail \in Failures :
           Returns("playwright_click", playwright_click(Now, page_index, fail))

T_playwright_screenshot ==
    /\ Room
    /\ \E in \in ScreenshotCalls :
           \E fails \in FailureLists(in.max_attempts) :
               Returns("playwright_screenshot", ScreenshotAttempts(Now, 0, in, fails))

\* Lines 4047-4104: the page is fetched outside the try block; a load state
\* that is not reached is noted, a failing evaluate is an error.
playwright_wait_for_load_state_multiple(st, page_index, fail) ==
    LET got == _get_page(st, page_index, fail) IN
    IF got.raised THEN Done(got, Raised)
    ELSE IF got.page = NoHandle THEN Done(got, Mapping("error"))
    ELSE IF "evaluate" \in fail \/ IsClosed(got.w, got.page) THEN Done(got, Mapping("error"))
    ELSE IF "wait_for_load_state" \in fail THEN Done(got, Mapping("partial_success"))
    ELSE Done(got, Mapping("success"))

T_playwright_wait_for_load_state_multiple ==
    /\ Room
    /\ \E page_index \in {-1, 0}, fail \in Failures :
           Returns("playwright_wait_for_load_state_multiple",
                   playwright_wait_for_load_state_multiple(Now, page_index, fail))

\* The user closes a window, or a page crashes.
PageCloses ==
    /\ \E k \in 1..Len(tools.pages) :
           /\ ~IsClosed(world, tools.pages[k])
           /\ world' = [world EXCEPT !.closed = @ \cup {tools.pages[k]}]
    /\ UNCHANGED << tools, tool_ret, execVars, fnVars >>

-----------------------------------------------------------------------------

\* No plan is running.
ExecutorIdle ==
    /\ executor = None
    /\ client = [session |-> FALSE, llm_client |-> FALSE, server |-> FALSE]
    /\ reply = None
    /\ pc = "adapt"
    /\ tool_calls = << >>
    /\ i = 0
    /\ results = << >>
    /\ success_count = 0
    /\ error_recovery_attempts = 0
    /\ ret = [status |-> None, message |-> None, raw_response |-> None]
    /\ invoked = << >>
    /\ log = << >>
    /\ prompts = 0

InitAdapt ==
    /\ ExecutorIdle
    /\ fn = [name |-> None, pass |-> 0]
    /\ fn_in = [none |-> NoneS]
    /\ fn_out = [none |-> NoneS]
    /\ ToolsConstructed

NextAdapt ==
    \/ Call_patched_evaluate
    \/ Call_param_adapter_adapt_smart_click
    \/ Call_playwright_adapter_adapt_smart_click
    \/ Call_patched_smart_click
    \/ Call_playwright_smart_click
    \/ Call_param_adapter_adapt_screenshot
    \/ Call_playwright_adapter_adapt_screenshot
    \/ Call_patched_screenshot
    \/ Call_playwright_screenshot
    \/ \E now \in Nows : Readapt(now)

SpecAdapt == InitAdapt /\ [][NextAdapt]_vars

-----------------------------------------------------------------------------
(* The fill patch on every combination of its keywords: a keyword is left  *)
(* out, or given as None, as the empty string or as a text.                *)

\* marks a keyword that the call leaves out
Absent == << "absent" >>

Given(values) == { Absent } \cup values

FillChoices ==
    [selector : Given({ << >>, <<"#","a">> }),
     value : Given({ NoneS, << >>, <<"v">>, <<"w">> }),
     text : Given({ NoneS, << >>, <<"v">>, <<"w">> }),
     timeout : Given({ <<"5">> }),
     force : Given({ <<"1">> })]

\* the keywords of one call
Keywords(choice) ==
    [k \in { key \in DOMAIN choice : choice[key] # Absent } |-> choice[k]]

Call_patched_fill ==
    /\ fn.pass = 0
    /\ \E choice \in FillChoices :
           Called("patched_fill", Keywords(choice), patched_fill(Keywords(choice)))

NextFill == Call_patched_fill

SpecFill == InitAdapt /\ [][NextFill]_vars

-----------------------------------------------------------------------------
(* Tool discovery on an arbitrary tools instance: the instance is a map    *)
(* from attribute names to what the attribute is.  A "method" and a        *)
(* "patched" method are callable, "data" is not, and "opaque" is a         *)
(* callable for which inspect.signature raises.                            *)

AttributeNames ==
    << <<"_", "p">>,
       <<"c">>,
       <<"p","l","a","y","w","r","i","g","h","t">>,
       <<"p","l","a","y","w","r","i","g","h","t","_">>,
       <<"p","l","a","y","w","r","i","g","h","t","_","a">> >>

AttributeKinds == { "method", "patched", "data", "opaque" }

Instances ==
    UNION { [names -> AttributeKinds] :
              names \in SUBSET { AttributeNames[k] : k \in 1..Len(AttributeNames) } }

\* dir(instance): the attribute names in sorted order
Dir(instance) == SelectSeq(AttributeNames, LAMBDA m : m \in DOMAIN instance)

\* callable(getattr(instance, m))
IsCallable(instance, m) == instance[m] \in { "method", "patched", "opaque" }

\* Lines 415-484: the names of the tools returned.  A method whose
\* signature cannot be read is skipped (except ...: continue, lines 479-481).
_create_tools(instance) ==
    LET tool_methods ==
            SelectSeq(Dir(instance),
                      LAMBDA m : IsCallable(instance, m) /\ StartsWith(m, PlaywrightPrefix))
    IN  SelectSeq(tool_methods, LAMBDA m : instance[m] # "opaque")

\* Lines 779-802 of process_natural_language: the names after which a line
\* "- tool - doc" is added to the brief.  Line 787 stands between the list of
\* names and the loop that writes the lines.
BriefTools(instance) ==
    LET available ==
            SelectSeq(Dir(instance),
                      LAMBDA m : IsCallable(instance, m) /\ ~StartsWith(m, <<"_">>))
    IN  IF "time" \in LocalImports /\ "time" \notin BoundAtLine787
        THEN [raised |-> TRUE, listed |-> << >>]
        ELSE [raised |-> FALSE,
              listed |-> SelectSeq(available, LAMBDA m : StartsWith(m, PlaywrightPrefix))]

\* PlaywrightMCPServer.start builds the tools (line 405) ...
Call_create_tools ==
    /\ fn.pass = 0
    /\ fn' = [fn EXCEPT !.pass = 1]
    /\ fn_out' = [fn_out EXCEPT !.tools = _create_tools(fn_in)]
    /\ UNCHANGED << fn_in, execVars, toolsVars >>

\* ... and process_natural_language builds its brief afterwards.
Call_process_natural_language ==
    /\ fn.pass = 1
    /\ fn' = [fn EXCEPT !.pass = 2]
    /\ fn_out' = [fn_out EXCEPT !.brief = BriefTools(fn_in)]
    /\ UNCHANGED << fn_in, execVars, toolsVars >>

InitRegistry ==
    /\ ExecutorIdle
    /\ fn = [name |-> "registry", pass |-> 0]
    /\ fn_in \in Instances
    /\ fn_out = [tools |-> << >>, brief |-> [raised |-> FALSE, listed |-> << >>]]
    /\ ToolsConstructed

NextRegistry ==
    \/ Call_create_tools
    \/ Call_process_natural_language

SpecRegistry == InitRegistry /\ [][NextRegistry]_vars

\* The instance right after construction; the executor is not running.
InitTools == InitAdapt

NextTools ==
    \/ T_initialize
    \/ T_cleanup
    \/ T_playwright_click
    \/ T_playwright_screenshot
    \/ T_playwright_wait_for_load_state_multiple
    \/ PageCloses

SpecTools == InitTools /\ [][NextTools]_vars

-----------------------------------------------------------------------------
(* main: the command line.  fn_in holds the parsed arguments, fn.pass the  *)
(* position in main, fn_out.events the calls main has made so far.         *)

Instructions == { <<"g","o">>, <<"g","o"," ","b","a","c","k">>, <<"c","l","i","c","k">> }

\* argparse: --test and --keep-browser are flags, --command is None when it
\* is not given and may be given as the empty string
Arguments ==
    [test : BOOLEAN, command : { NoneS, << >> } \cup Instructions, keep_browser : BOOLEAN]

\* main is at position n and has not returned
AtLine(n) == fn.name = "main" /\ fn.pass = n /\ ~fn_out.exited

Event(pass, events, exited) ==
    /\ fn' = [fn EXCEPT !.pass = pass]
    /\ fn_out' = [events |-> fn_out.events \o events, exited |-> exited]
    /\ UNCHANGED << fn_in, execVars >>

\* Lines 1714-1758: if args.test: ... return.  The test drives a browser of
\* its own, not the tools instance.
Main_Test ==
    /\ AtLine(0)
    /\ fn_in.test
    /\ Event(0, << "test" >>, TRUE)
    /\ UNCHANGED toolsVars

\* Lines 1760-1765: PlaywrightMCPServer() and server.start(); start returns
\* False when initialize does and main does not look at what it returns.  The
\* constructor makes the screenshots directory and raises when it cannot.
Main_CommandStart ==
    /\ AtLine(0)
    /\ ~fn_in.test /\ ~Falsy(fn_in.command)
    /\ \/ /\ Event(0, << "PlaywrightMCPServer raises" >>, TRUE)
          /\ UNCHANGED toolsVars
       \/ /\ Event(1, << "server.start" >>, FALSE)
          /\ \E fail \in Failures :
                 LET done == IF "start" \in fail THEN Now
                             ELSE _ensure_browser_initialized(StartPlaywright(Now), fail)
                 IN  /\ tools' = done.t
                     /\ world' = done.w
                     /\ tool_ret' = [op |-> "initialize", close_failed |-> FALSE]
                                       @@ ReturnedBool("start" \notin fail)

\* Lines 1767-1770: the command is printed; the comment of line 1770 stands
\* where the command would be run.
Main_CommandRun ==
    /\ AtLine(1)
    /\ Event(2, << "print" >>, FALSE)
    /\ UNCHANGED toolsVars

\* Lines 1772-1780: server.stop() unless --keep-browser, then return.
Main_CommandCleanup ==
    /\ AtLine(2)
    /\ IF fn_in.keep_browser
       THEN /\ Event(2, << >>, TRUE)
            /\ UNCHANGED toolsVars
       ELSE /\ Event(2, << "server.stop" >>, TRUE)
            /\ \E fail \in { {}, {"close_page"} } :
                   LET done == cleanup(Now, fail) IN
                   /\ tools' = done.t
                   /\ world' = done.w
                   /\ tool_ret' = [op |-> "cleanup",
                                   close_failed |-> \E k \in 1..Len(tools.pages) :
                                                        ~IsClosed(done.w, tools.pages[k])]
                                  @@ ReturnedNone

\* Lines 1782-1784: without --test and without a command, run_integrated.
Main_Interactive ==
    /\ AtLine(0)
    /\ ~fn_in.test /\ Falsy(fn_in.command)
    /\ Event(0, << "run_integrated" >>, TRUE)
    /\ UNCHANGED toolsVars

InitMain ==
    /\ ExecutorIdle
    /\ fn = [name |-> "main", pass |-> 0]
    /\ fn_in \in Arguments
    /\ fn_out = [events |-> << >>, exited |-> FALSE]
    /\ ToolsConstructed

NextMain ==
    \/ Main_Test
    \/ Main_CommandStart
    \/ Main_CommandRun
    \/ Main_CommandCleanup
    \/ Main_Interactive

SpecMain == InitMain /\ [][NextMain]_vars

\* The session without the screenshot action: what PlaywrightMCPServer.start,
\* the actions of a plan and PlaywrightMCPServer.stop do to it.
NextSession ==
    \/ T_initialize
    \/ T_cleanup
    \/ T_playwright_click
    \/ T_playwright_wait_for_load_state_multiple
    \/ PageCloses

SpecSession == InitTools /\ [][NextSession]_vars

-----------------------------------------------------------------------------

Init ==
    /\ executor \in {RI, PNL}
    /\ client \in [session : BOOLEAN, llm_client : BOOLEAN, server : BOOLEAN]
    \* run_integrated reaches its executor only with an llm_client and its own server
    /\ executor = RI => client = [session |-> FALSE, llm_client |-> TRUE, server |-> TRUE]
    /\ reply \in Replies
    \* run_integrated reaches its executor only with a reply that holds a plan
    /\ executor = RI => reply = "tool_calls"
    /\ pc = "plan"
    /\ tool_calls \in Plans
    /\ reply # "tool_calls" => tool_calls = << >>
    /\ i = 0
    /\ results = << >>
    /\ success_count = 0
    /\ error_recovery_attempts = 0
    /\ ret = [status |-> None, message |-> None, raw_response |-> None]
    /\ invoked = << >>
    /\ log = << >>
    /\ prompts = 0
    /\ fn = [name |-> None, pass |-> 0]
    /\ fn_in = [none |-> NoneS]
    /\ fn_out = [none |-> NoneS]
    /\ ToolsConstructed

Next ==
    \/ RI_BeginPlan
    \/ RI_LoopExit
    \/ RI_IndexError
    \/ RI_NoToolName
    \/ RI_ToolNotFound
    \/ RI_StepSuccess
    \/ RI_StepFails
    \/ RI_SmartClickNoText
    \/ RI_SmartClickGetPageRaises
    \/ \E clickable \in ClickableSets, js \in BOOLEAN : RI_SmartClickRecovery(clickable, js)
    \/ \E ok \in BOOLEAN : RI_ScreenshotRecovery(ok)
    \/ \E answer \in Answers : RI_NavigateFailed(answer)
    \/ RI_StepFailedOther
    \/ \E answer \in Answers : RI_StepRaises(answer)
    \/ PNL_NoSession
    \/ PNL_NoLLMClient
    \/ PNL_NoServer
    \/ PNL_BuildPrompt

Spec == Init /\ [][Next]_vars

\* run_integrated alone, on plans made of the steps that have a failure
\* handling of their own (nearest-name fallback, recovery, retry prompt); a
\* smart-click recovery finds no selector and either fails or succeeds with the
\* script
RecoveryToolCalls ==
    { c \in ToolCalls :
        \/ c.tool \in {"playwright_navigate", "playwright_screenshot", "playwright_clik"}
        \/ c.tool = "playwright_smart_click" /\ "text" \in DOMAIN c.arguments }

InitRecovery ==
    /\ Init
    /\ executor = RI
    /\ \A k \in 1..Len(tool_calls) : tool_calls[k] \in RecoveryToolCalls

NextRecovery ==
    \/ RI_BeginPlan
    \/ RI_LoopExit
    \/ RI_IndexError
    \/ RI_ToolNotFound
    \/ RI_StepSuccess
    \/ RI_StepFails
    \/ RI_SmartClickGetPageRaises
    \/ \E clickable \in { {} }, js \in BOOLEAN : RI_SmartClickRecovery(clickable, js)
    \/ \E ok \in BOOLEAN : RI_ScreenshotRecovery(ok)
    \/ \E answer \in Answers : RI_NavigateFailed(answer)
    \/ RI_StepFailedOther
    \/ \E answer \in Answers : RI_StepRaises(answer)

SpecRecovery == InitRecovery /\ [][NextRecovery]_vars

\* run_integrated alone, on plans of smart clicks by text and plain clicks, with
\* every combination of recovery selectors that are visible and click
SmartClickToolCalls ==
    { c \in ToolCalls :
        \/ c.tool = "playwright_click"
        \/ c.tool = "playwright_smart_click" /\ "text" \in DOMAIN c.arguments }

InitSmartClick ==
    /\ Init
    /\ executor = RI
    /\ \A k \in 1..Len(tool_calls) : tool_calls[k] \in SmartClickToolCalls

NextSmartClick ==
    \/ RI_BeginPlan
    \/ RI_LoopExit
    \/ RI_StepSuccess
    \/ RI_StepFails
    \/ RI_SmartClickGetPageRaises
    \/ \E clickable \in SUBSET (1..Len(recovery_selectors)), js \in BOOLEAN :
           RI_SmartClickRecovery(clickable, js)
    \/ RI_StepFailedOther
    \/ \E answer \in Answers : RI_StepRaises(answer)

SpecSmartClick == InitSmartClick /\ [][NextSmartClick]_vars

-----------------------------------------------------------------------------
(* run_integrated: the interactive loop.  fn.pass counts the prompts shown, *)
(* fn_in tells what construction and start of the server did, fn_out.at is *)
(* the position in run_integrated, fn_out.events the passes of the loop so *)
(* far (what was typed and how the pass ended) and fn_out.stops the number *)
(* of calls of server.stop().                                              *)

MaxCommands == 3

\* what the user types at ">> Enter command: "
UserInputs ==
    { <<"e","x","i","t">>, <<"E","X","I","T">>, <<" ","Q","u","i","t"," ">>,
      <<"q","u","i","t">>, << >>, <<" ">>, <<"g","o">>,
      <<"e","x","i","t"," ","n","o","w">> }

\* Line 1280: user_input.lower() in ["exit", "quit"], user_input stripped
IsExit(user_input) ==
    Lower(user_input) \in { <<"e","x","i","t">>, <<"q","u","i","t">> }

\* How a pass over a command ends after line 1286:
\*   no_llm_client     1290-1293 continue
\*   llm_raises        the request of 1314 raises, caught at 1685
\*   invalid_response  1325-1327 continue
\*   json_error        json.loads raises, 1675-1677 continue
\*   invalid_plan      1344-1346 continue
\*   plan_raises       an exception in the executor or the summary, 1678-1680
\*   summary           the plan was executed and the summary printed, 1673
\*   KeyboardInterrupt the user interrupts the pass, 1682-1684 break
\*   CancelledError    the task is cancelled, no handler of the loop takes it
PlanErrors ==
    { "no_llm_client", "llm_raises", "invalid_response", "json_error",
      "invalid_plan", "plan_raises" }

Interrupts == { "KeyboardInterrupt", "CancelledError" }

PassOutcomes == PlanErrors \cup { "summary" } \cup Interrupts

EndsOnAnyFailure(outcome) == outcome # "summary"

\* Lines 1682-1686: KeyboardInterrupt breaks, any other Exception is printed
\* and the while loop goes on; a BaseException leaves run_integrated
EndsLoop(outcome) == outcome \in Interrupts

\* Lines 1258-1262: PlaywrightMCPServer() raises, or start() returns False, or
\* the server is started
ServerStarts == { "constructor_raises", "start_fails", "started" }

AtRepl(at) == fn.name = "run_integrated" /\ fn_out.at = at

\* Lines 1258-1273: the server is made and started, the client is made
Repl_Start ==
    /\ AtRepl("start")
    /\ fn_out' = [fn_out EXCEPT
            !.at = IF fn_in = "started" THEN "prompt" ELSE "finally",
            !.server = fn_in # "constructor_raises"]
    /\ UNCHANGED << fn, fn_in, execVars, toolsVars >>

\* Lines 1275-1284: input() raises, or the text is exit/quit, or it is empty
Repl_Prompt ==
    /\ AtRepl("prompt")
    /\ fn.pass < MaxCommands
    /\ \E typed \in UserInputs \cup { << "EOFError" >>, << "KeyboardInterrupt" >> } :
         LET raised == typed \in { << "EOFError" >>, << "KeyboardInterrupt" >> }
             user_input == IF raised THEN << >> ELSE Strip(typed)
             outcome == IF raised THEN typed[1]
                        ELSE IF IsExit(user_input) THEN "exit"
                        ELSE IF user_input = << >> THEN "empty"
                        ELSE "command"
             at == IF outcome = "command" THEN "plan"
                   ELSE IF outcome = "exit" \/ EndsLoop(outcome) THEN "finally"
                   ELSE "prompt"
         IN  /\ fn' = [fn EXCEPT !.pass = @ + 1]
             /\ fn_out' = [fn_out EXCEPT
                    !.at = at,
                    !.events = Append(@, [typed |-> typed, outcome |-> outcome])]
    /\ UNCHANGED << fn_in, execVars, toolsVars >>

\* Lines 1286-1686: the rest of the pass over a command
Repl_Command ==
    /\ AtRepl("plan")
    /\ \E outcome \in PassOutcomes :
         fn_out' = [fn_out EXCEPT
            !.at = IF EndsLoop(outcome) THEN "finally" ELSE "prompt",
            !.events = [@ EXCEPT ![Len(@)].outcome = outcome]]
    /\ UNCHANGED << fn, fn_in, execVars, toolsVars >>

\* Lines 1697-1703: finally: if 'server' in locals() and server: server.stop()
Repl_Finally ==
    /\ AtRepl("finally")
    /\ fn_out' = [fn_out EXCEPT
            !.at = "returned",
            !.stops = IF fn_out.server THEN @ + 1 ELSE @]
    /\ UNCHANGED << fn, fn_in, execVars, toolsVars >>

InitRepl ==
    /\ ExecutorIdle
    /\ fn = [name |-> "run_integrated", pass |-> 0]
    /\ fn_in \in ServerStarts
    /\ fn_out = [at |-> "start", events |-> << >>, server |-> FALSE, stops |-> 0]
    /\ ToolsConstructed

NextRepl ==
    \/ Repl_Start
    \/ Repl_Prompt
    \/ Repl_Command
    \/ Repl_Finally

SpecRepl == InitRepl /\ [][NextRepl]_vars

-----------------------------------------------------------------------------
(* The text of one pass of the loop of process_natural_language over a     *)
(* resolved step, lines 1080-1138: how many times it awaits tool_method.   *)

\* Lines 1081-1090: with the adapter module, every branch awaits the method
\* (adapt_smart_click and adapt_screenshot call it once); lines 1091-1136:
\* without it, only the playwright_evaluate branch does
BranchInvocations(tool_name, adapters_imported) ==
    IF adapters_imported THEN 1
    ELSE IF tool_name = "playwright_evaluate" THEN 1 ELSE 0

\* Line 1138: result = await tool_method(**arguments), after either branch
PNL_PassInvocations(tool_name, adapters_imported) ==
    BranchInvocations(tool_name, adapters_imported) + 1

-----------------------------------------------------------------------------
(* run_integrated on plans of action names the tools instance does not     *)
(* have: an alias and names at distance 2, 3, 4, 5 and 6 of the nearest    *)
(* registry name, two of them at the same distance of two registry names.  *)
(* A plan has up to max_recovery_attempts + 1 steps, so that the budget of *)
(* recoveries can run out.                                                 *)

UnresolvedNames ==
    { "playwright_press", "playwright_clik", "playwright_drll", "playwright_clk",
      "playwright_reload", "playwright_scroll", "playwright_scroll_to" }

UnresolvedCalls ==
    { [tool |-> n, arguments |-> [selector |-> "s"]] : n \in UnresolvedNames }

InitResolve ==
    /\ executor = RI
    /\ client = [session |-> FALSE, llm_client |-> TRUE, server |-> TRUE]
    /\ reply = "tool_calls"
    /\ pc = "plan"
    /\ tool_calls \in UNION { [1..n -> UnresolvedCalls] : n \in 0..(max_recovery_attempts + 1) }
    /\ i = 0
    /\ results = << >>
    /\ success_count = 0
    /\ error_recovery_attempts = 0
    /\ ret = [status |-> None, message |-> None, raw_response |-> None]
    /\ invoked = << >>
    /\ log = << >>
    /\ prompts = 0
    /\ fn = [name |-> None, pass |-> 0]
    /\ fn_in = [none |-> NoneS]
    /\ fn_out = [none |-> NoneS]
    /\ ToolsConstructed

NextResolve ==
    \/ RI_BeginPlan
    \/ RI_ToolNotFound
    \/ RI_LoopExit

SpecResolve == InitResolve /\ [][NextResolve]_vars

-----------------------------------------------------------------------------
(* process_natural_language: the extraction of the plan from the reply.    *)
(* fn_in is the reply by what the patterns of lines 830-887 find in it:    *)
(* the fenced code blocks, the match of the tool_calls pattern and the     *)
(* brace objects, each by what json.loads makes of it.  fn_out is what the *)
(* call returns: its status, the stage whose plan it used (0: none) and    *)
(* the position of that plan among the blocks or objects.                  *)

MaxBlocks == 2

\* a fenced block: a JSON object with 'tool_calls'; other JSON without tool
\* call objects; a JSON list of tool call objects; text that is not JSON;
\* text that is not JSON and holds tool call objects
BlockKinds == { "plan", "json", "list_of_calls", "text", "text_with_calls" }

\* a brace object: shorter than 10 characters; a JSON object with 'tool_calls';
\* other JSON; not JSON
ObjectKinds == { "short", "plan", "json", "text" }

RepliesFound ==
    [json_block_matches : UNION { [1..n -> BlockKinds] : n \in 0..MaxBlocks },
     tool_calls_match : { "none", "valid", "invalid" },
     json_matches : UNION { [1..n -> ObjectKinds] : n \in 0..MaxBlocks }]

FirstIn(seq, kinds) ==
    IF \E k \in 1..Len(seq) : seq[k] \in kinds
    THEN CHOOSE k \in 1..Len(seq) : seq[k] \in kinds /\ \A j \in 1..(k - 1) : seq[j] \notin kinds
    ELSE 0

\* Lines 829-903: plan_data after the four tries
ExtractPlan(found) ==
    LET first == FirstIn(found.json_block_matches, { "plan" })
        third == FirstIn(found.json_matches, { "plan" })
        fourth == FirstIn(found.json_block_matches, { "list_of_calls", "text_with_calls" })
    IN  IF first # 0 THEN [stage |-> 1, at |-> first]
        ELSE IF found.tool_calls_match = "valid" THEN [stage |-> 2, at |-> 1]
        ELSE IF third # 0 THEN [stage |-> 3, at |-> third]
        ELSE IF fourth # 0 THEN [stage |-> 4, at |-> fourth]
        ELSE [stage |-> 0, at |-> 0]

\* Lines 787-933 of a call with session, llm_client and server: line 787 reads
\* time, which is a local name of the function and not yet bound
PNL_ParseReply ==
    /\ fn.name = PNL
    /\ fn.pass = 0
    /\ fn' = [fn EXCEPT !.pass = 1]
    /\ fn_out' =
         IF "time" \in LocalImports /\ "time" \notin BoundAtLine787
         THEN [status |-> "error", message |-> "UnboundLocalError: time",
               stage |-> 0, at |-> 0]
         ELSE LET plan_data == ExtractPlan(fn_in)
              IN  IF plan_data.stage = 0
                  THEN [status |-> "error",
                        message |-> "Failed to parse LLM response as JSON",
                        stage |-> 0, at |-> 0]
                  ELSE [status |-> "success", message |-> None,
                        stage |-> plan_data.stage, at |-> plan_data.at]
    /\ UNCHANGED << fn_in, execVars, toolsVars >>

InitExtract ==
    /\ ExecutorIdle
    /\ fn = [name |-> PNL, pass |-> 0]
    /\ fn_in \in RepliesFound
    /\ fn_out = [status |-> None, message |-> None, stage |-> 0, at |-> 0]
    /\ ToolsConstructed

NextExtract == PNL_ParseReply

SpecExtract == InitExtract /\ [][NextExtract]_vars

-----------------------------------------------------------------------------
(* The retry loops of playwright_screenshot and playwright_smart_click on  *)
(* every list of failures, one entry per pass, from the states a session   *)
(* can be in when an action is called.  fn_in holds the call.              *)

NeverLast(n, max_attempts) == FALSE

\* if attempt_count == max_attempts
LastAttempt(n, max_attempts) == n = max_attempts

RECURSIVE SmartClickAttempts(_, _, _, _)
\* Lines 2563-2711, the loop  while attempt_count < max_attempts  with one
\* entry of fails per pass, for a text that was given or taken from the
\* selector.  A loop that never runs or runs out falls off the end of the
\* function.
SmartClickAttempts(st, attempt_count, in, fails) ==
    IF ~(attempt_count < in.max_attempts)
    THEN Done(st, [attempts |-> attempt_count] @@ ReturnedNone)
    ELSE
    LET n == attempt_count + 1
        last == LastAttempt(n, in.max_attempts)
        fail == fails[n]
        again(s) == SmartClickAttempts(s, n, in, fails)
        \* a return in pass n; attempts is history
        done(s, r) == Done(s, [attempts |-> n] @@ r)
        \* lines 2680-2708: except Exception as e
        handler(s) == IF last THEN done(s, Mapping("error")) ELSE again(s)
        \* lines 2661-2678: none of the selectors worked
        none_worked(s) == IF last THEN done(s, Mapping("error")) ELSE again(s)
        \* lines 2594-2659: text.lower() raises for a text that is no string;
        \* an exception of is_visible, click or the screenshot after the click
        \* only moves on to the next selector
        click(s) ==
            IF ~in.text_is_str THEN handler(s)
            ELSE IF "click" \in fail THEN none_worked(s)
            ELSE IF in.capture_screenshot /\ FirstShotFails(fail) THEN none_worked(s)
            ELSE done(s, Mapping("success"))
        \* lines 2577-2589
        with_page(s) ==
            IF s.raised THEN handler(Ok(s))
            ELSE IF s.page = NoHandle THEN done(s, Mapping("error"))
            ELSE IF ~IsClosed(s.w, s.page) THEN click(s)
            ELSE IF NewPageFails(s, fail) THEN handler(s)
            ELSE LET made == NewPage(s)
                 IN  click([made EXCEPT !.t.pages[in.page_index + 1] = made.page])
        \* lines 2570-2574
        ensured == IF st.t.browser_initialized THEN Ok(st)
                   ELSE _ensure_browser_initialized(st, fail)
    IN  IF ensured.raised THEN handler(Ok(ensured))
        ELSE with_page(_get_page(ensured, in.page_index, fail))

\* the failures a pass of either loop can meet
RetryFailures ==
    { {} } \cup { {c} : c \in { "launch", "new_context", "new_page", "is_closed",
                                "screenshots", "click" } }

\* PlaywrightTools() alone; after initialize; with a browser and a page; with
\* that page closed; with that browser closed
Constructed ==
    [t |-> [playwright |-> NoHandle, browser |-> NoHandle, context |-> NoHandle,
            pages |-> << >>, browser_initialized |-> FALSE],
     w |-> [playwrights |-> << >>, browsers |-> << >>, contexts |-> << >>,
            pages |-> << >>, closed |-> {}],
     raised |-> FALSE, page |-> NoHandle]

Ready == _get_page(StartPlaywright(Constructed), 0, {})

SessionStates ==
    { Constructed, StartPlaywright(Constructed), Ready,
      [Ready EXCEPT !.w.closed = { Ready.page }], CloseBrowser(Ready) }

SmartClickCalls ==
    [max_attempts : 0..MaxAttempts, page_index : {-1, 0},
     text_is_str : BOOLEAN, capture_screenshot : BOOLEAN]

RetryCalls ==
    { [op |-> "playwright_screenshot", in |-> in, fails |-> fails] :
        in \in ScreenshotCalls, fails \in UNION { [1..n -> RetryFailures] : n \in 0..MaxAttempts } }
    \cup
    { [op |-> "playwright_smart_click", in |-> in, fails |-> fails] :
        in \in SmartClickCalls, fails \in UNION { [1..n -> RetryFailures] : n \in 0..MaxAttempts } }

NotCalled(op) == tool_ret.op = None /\ fn.name = "retry" /\ fn_in.op = op

Retry_playwright_screenshot ==
    /\ NotCalled("playwright_screenshot")
    /\ Returns("playwright_screenshot", ScreenshotAttempts(Now, 0, fn_in.in, fn_in.fails))

Retry_playwright_smart_click ==
    /\ NotCalled("playwright_smart_click")
    /\ Returns("playwright_smart_click", SmartClickAttempts(Now, 0, fn_in.in, fn_in.fails))

InitRetry ==
    /\ ExecutorIdle
    /\ fn = [name |-> "retry", pass |-> 0]
    /\ fn_in \in { c \in RetryCalls : Len(c.fails) = c.in.max_attempts }
    /\ fn_out = [none |-> NoneS]
    /\ \E s \in SessionStates : tools = s.t /\ world = s.w
    /\ tool_ret = [op |-> None, outcome |-> None, value |-> None, status |-> None,
                   message |-> FALSE, close_failed |-> FALSE]

NextRetry ==
    \/ Retry_playwright_screenshot
    \/ Retry_playwright_smart_click

SpecRetry == InitRetry /\ [][NextRetry]_vars

-----------------------------------------------------------------------------
(* playwright_function_patches: the table of original functions.  A       *)
(* method is told by its implementation and the instance it is bound to.   *)
(* fn_out.methods is what each instance holds under its four names,        *)
(* fn_out.original_functions the module-level table and fn_out.calls the   *)
(* calls made so far.                                                      *)

MaxCalls == 3

PatchedInstances == { "a", "b" }

\* the keys of original_functions and the attribute each stands for
PatchKeys == { "smart_click", "screenshot", "evaluate", "fill" }

NoMethod == [impl |-> "none", self |-> "none"]

Original(instance) == [impl |-> "original", self |-> instance]

\* patched_x.__get__(instance)
Patched(instance) == [impl |-> "patched", self |-> instance]

\* hasattr(instance, 'playwright_fill')
HasFill(methods, instance) == methods[instance]["fill"] # NoMethod

StoredKeys(methods, instance) ==
    IF HasFill(methods, instance) THEN PatchKeys ELSE PatchKeys \ { "fill" }

PatchCall(op, instance, methods, table) ==
    /\ fn.name = "playwright_function_patches"
    /\ Len(fn_out.calls) < MaxCalls
    /\ fn_out' = [methods |-> methods, original_functions |-> table,
                  calls |-> Append(fn_out.calls, [op |-> op, instance |-> instance])]
    /\ UNCHANGED << fn, fn_in, execVars, toolsVars >>

\* Lines 18-44: what the instance holds now goes into the table, then the
\* instance gets the patched functions bound to it
apply_patches(instance) ==
    LET stored == StoredKeys(fn_out.methods, instance)
    IN  PatchCall("apply_patches", instance,
            [fn_out.methods EXCEPT ![instance] =
                [k \in PatchKeys |-> IF k \in stored THEN Patched(instance) ELSE @[k]]],
            [k \in PatchKeys |->
                IF k \in stored THEN fn_out.methods[instance][k]
                ELSE fn_out.original_functions[k]])

\* Lines 46-63: every key the table holds is put back on the instance
restore_patches(instance) ==
    PatchCall("restore_patches", instance,
        [fn_out.methods EXCEPT ![instance] =
            [k \in PatchKeys |->
                IF /\ fn_out.original_functions[k] # NoMethod
                   /\ k = "fill" => HasFill(fn_out.methods, instance)
                THEN fn_out.original_functions[k] ELSE @[k]]],
        fn_out.original_functions)

\* Line 16 and two instances as constructed, each with or without a fill method
InitPatches ==
    /\ ExecutorIdle
    /\ fn = [name |-> "playwright_function_patches", pass |-> 0]
    /\ fn_in = [none |-> NoneS]
    /\ \E with_fill \in SUBSET PatchedInstances :
         fn_out = [methods |-> [x \in PatchedInstances |->
                        [k \in PatchKeys |->
                            IF k = "fill" /\ x \notin with_fill THEN NoMethod
                            ELSE Original(x)]],
                   original_functions |-> [k \in PatchKeys |-> NoMethod],
                   calls |-> << >>]
    /\ ToolsConstructed

NextPatches ==
    \/ \E instance \in PatchedInstances : apply_patches(instance)
    \/ \E instance \in PatchedInstances : restore_patches(instance)

SpecPatches == InitPatches /\ [][NextPatches]_vars

-----------------------------------------------------------------------------
(* PlaywrightTools: code generation sessions.  The id "session_n" is the   *)
(* number n; fn_out.codegen_sessions maps the ids of the open sessions to  *)
(* their names, fn_out.last tells the last call, the ids open before it    *)
(* and the id it returned or was given.                                    *)

MaxSessionCalls == 4

SessionNames == { "x", "y" }

SessionCall(op, session_id, sessions) ==
    /\ fn.name = "codegen"
    /\ fn.pass < MaxSessionCalls
    /\ fn' = [fn EXCEPT !.pass = @ + 1]
    /\ fn_out' = [codegen_sessions |-> sessions,
                  last |-> [op |-> op, session_id |-> session_id,
                            before |-> DOMAIN fn_out.codegen_sessions]]
    /\ UNCHANGED << fn_in, execVars, toolsVars >>

\* Lines 211-221: session_id = f"session_{len(self.codegen_sessions) + 1}"
start_codegen_session(session_name) ==
    LET session_id == Cardinality(DOMAIN fn_out.codegen_sessions) + 1
    IN  SessionCall("start_codegen_session", session_id,
            [k \in DOMAIN fn_out.codegen_sessions \cup { session_id } |->
                IF k = session_id THEN session_name ELSE fn_out.codegen_sessions[k]])

\* Lines 223-237: an unknown id is an error, a known one is popped
end_codegen_session(session_id) ==
    SessionCall("end_codegen_session", session_id,
        [k \in DOMAIN fn_out.codegen_sessions \ { session_id } |->
            fn_out.codegen_sessions[k]])

\* Line 51: self.codegen_sessions = {}
InitCodegen ==
    /\ ExecutorIdle
    /\ fn = [name |-> "codegen", pass |-> 0]
    /\ fn_in = [none |-> NoneS]
    /\ fn_out = [codegen_sessions |-> [k \in {} |-> "x"],
                 last |-> [op |-> None, session_id |-> 0, before |-> {}]]
    /\ ToolsConstructed

NextCodegen ==
    \/ \E session_name \in SessionNames : start_codegen_session(session_name)
    \/ \E session_id \in 1..MaxSessionCalls : end_codegen_session(session_id)

SpecCodegen == InitCodegen /\ [][NextCodegen]_vars

-----------------------------------------------------------------------------
(* The selector-to-text adaptation written out in the executor loop of     *)
(* process_natural_language, next to the three of the adapter and patch    *)
(* modules.                                                                *)

RECURSIVE Replace(_, _)
\* str.replace(old, ""): every occurrence of old, from the left
Replace(s, old) ==
    IF s = << >> THEN << >>
    ELSE IF OccursAt(s, old, 1) THEN Replace(SubSeq(s, Len(old) + 1, Len(s)), old)
    ELSE << Head(s) >> \o Replace(Tail(s), old)

\* Lines 1097-1122: the chain of the adapter modules, then
\* selector.replace("a:has-text('", "").replace("')", "") for a text not found
inline_adapt_smart_click(kwargs) ==
    IF "selector" \in DOMAIN kwargs /\ "text" \notin DOMAIN kwargs
    THEN LET selector == kwargs.selector
             text == ExtractText(selector)
         IN  With(Without(kwargs, "selector"), "text",
                  IF Falsy(text)
                  THEN Replace(Replace(selector,
                                       <<"a",":","h","a","s","-","t","e","x","t","(","'">>),
                               <<"'",")">>)
                  ELSE text)
    ELSE kwargs

Call_inline_adapt_smart_click ==
    /\ fn.pass = 0
    /\ \E kwargs \in SmartClickInputs :
           Called("process_natural_language", kwargs, inline_adapt_smart_click(kwargs))

NextSelectorText ==
    \/ Call_param_adapter_adapt_smart_click
    \/ Call_playwright_adapter_adapt_smart_click
    \/ Call_patched_smart_click
    \/ Call_inline_adapt_smart_click

SpecSelectorText == InitAdapt /\ [][NextSelectorText]_vars

-----------------------------------------------------------------------------
(* MCPClient.execute_plan.  fn_in holds whether the client has a session   *)
(* and the plan, each tool call by what happens to it; fn.pass is the      *)
(* index of the for loop; fn_out holds the results so far (with the        *)
(* position of the tool call an entry was made for) and how the call ended.*)

\* a tool call without 'tool'; with a name that is not in self.tools; whose
\* call_tool returns; returns a result with 'error' in its text; raises
PlanCallKinds == { "no_tool", "not_available", "returns", "returns_error", "raises" }

EP_At(at) == fn.name = "execute_plan" /\ fn_out.at = at

\* Lines 717-719: if not self.session: return []
EP_NoSession ==
    /\ EP_At("called")
    /\ ~fn_in.session
    /\ fn_out' = [fn_out EXCEPT !.at = "returned"]
    /\ UNCHANGED << fn, fn_in, execVars, toolsVars >>

\* Lines 723-757: one pass of  for i, tool_call in enumerate(tool_calls)
EP_Pass ==
    /\ EP_At("called")
    /\ fn_in.session
    /\ fn.pass < Len(fn_in.tool_calls)
    /\ LET kind == fn_in.tool_calls[fn.pass + 1]
           entry(status) == [status |-> status, step |-> fn.pass + 1]
       IN  fn_out' =
             CASE kind = "no_tool" -> fn_out
               [] kind = "not_available" ->
                    [fn_out EXCEPT !.results = Append(@, entry("failed"))]
               [] kind = "returns" ->
                    [fn_out EXCEPT !.results = Append(@, entry("completed"))]
               [] kind \in { "returns_error", "raises" } ->
                    [fn_out EXCEPT !.results = Append(@, entry("failed"))]
    /\ fn' = [fn EXCEPT !.pass = @ + 1]
    /\ UNCHANGED << fn_in, execVars, toolsVars >>

\* Line 759: return results
EP_Return ==
    /\ EP_At("called")
    /\ fn_in.session
    /\ fn.pass = Len(fn_in.tool_calls)
    /\ fn_out' = [fn_out EXCEPT !.at = "returned"]
    /\ UNCHANGED << fn, fn_in, execVars, toolsVars >>

InitExecutePlan ==
    /\ ExecutorIdle
    /\ fn = [name |-> "execute_plan", pass |-> 0]
    /\ fn_in \in [session : BOOLEAN,
                  tool_calls : UNION { [1..n -> PlanCallKinds] : n \in 0..MaxPlanLen }]
    /\ fn_out = [at |-> "called", results |-> << >>]
    /\ ToolsConstructed

NextExecutePlan ==
    \/ EP_NoSession
    \/ EP_Pass
    \/ EP_Return

SpecExecutePlan == InitExecutePlan /\ [][NextExecutePlan]_vars

-----------------------------------------------------------------------------
(* Claims about the executor loop.                                         *)

\* C1: when the executor loop finishes, the trace holds exactly one entry per
\* ToolCall and entry k was made for ToolCall k, whatever the step outcomes and
\* the answers to the retry prompt.
C1_OneResultPerToolCall ==
    (executor = RI /\ pc = "done") =>
        /\ Len(results) = Len(tool_calls)
        /\ \A k \in 1..Len(results) : results[k].step = k

\* C2: with session, llm_client and server set, process_natural_language returns
\* status 'success' for every plan, also one with a ToolCall that has no 'tool'
\* field: an exception of one step never ends the plan.
C2_StepExceptionNeverEndsPlan ==
    (executor = PNL /\ pc = "returned"
        /\ client.session /\ client.llm_client /\ client.server) =>
        ret.status = "success"

\* C3: a step is recorded as 'Tool not found' only when neither the alias table
\* nor nearest-name matching yields a method; for an alias the canonical action
\* is invoked with the call's arguments.
C3_AliasIsInvoked ==
    \A n \in 1..Len(log) :
        log[n].outcome = "not_found" => log[n].sub = "none"

\* C4: the executor invokes an attribute of the tools instance only if it is in
\* the Action Registry (a callable named playwright_...).
C4_OnlyRegistryInvoked ==
    \A k \in 1..Len(invoked) : invoked[k].tool \in Registry

\* C5: after a failed playwright_navigate step answered 'y', the next step the
\* executor runs is the step at the same index.
C5_RetryRunsSameStep ==
    \A n \in 1..(Len(log) - 1) :
        (log[n].tool = "playwright_navigate" /\ log[n].retry) =>
            log[n + 1].step = log[n].step

\* C6: in process_natural_language every step of the plan runs and its post-step
\* branch depends only on its success: the settle pause exactly after a
\* successful step that is not the last, the retry prompt exactly for a failed
\* playwright_navigate step.
C6_PostStepBranchBySuccess ==
    (executor = PNL /\ pc = "returned"
        /\ client.session /\ client.llm_client /\ client.server) =>
        /\ \A k \in 1..Len(tool_calls) : \E n \in 1..Len(log) : log[n].step = k
        /\ \A n \in 1..Len(log) :
              /\ log[n].paused <=> (log[n].outcome = "success" /\ log[n].step < Len(tool_calls))
              /\ log[n].prompted <=>
                    (log[n].outcome \in {"error", "raise"} /\ log[n].tool = "playwright_navigate")

-----------------------------------------------------------------------------
(* Claims about the argument adaptations.                                  *)

\* characters that continue a JavaScript identifier
IdentChars ==
    { "a","b","c","d","e","f","g","h","i","j","k","l","m","n","o","p","q","r","s","t",
      "u","v","w","x","y","z","_","$","0","1","2","3","4","5","6","7","8","9" }

\* the keyword return at position k: not a part of a longer identifier
ReturnKeywordAt(s, k) ==
    /\ OccursAt(s, RETURN, k)
    /\ (k > 1 => s[k - 1] \notin IdentChars)
    /\ (k + Len(RETURN) <= Len(s) => s[k + Len(RETURN)] \notin IdentChars)

HasReturnStatement(s) == \E k \in 1..Len(s) : ReturnKeywordAt(s, k)

\* the script patched_evaluate works on: script, or pageFunction when script is
\* missing or empty
ScriptOf(kwargs) ==
    IF Param(kwargs, "script") # NoneS /\ Param(kwargs, "script") # << >>
    THEN Param(kwargs, "script") ELSE Param(kwargs, "pageFunction")

\* C7: patched_evaluate passes a body with a return statement and no function
\* marker on as '() => { body }', and passes every other body on unchanged, also
\* a body that holds the letters 'return' only inside an identifier.
C7_EvaluateWrapsReturnStatements ==
    (fn.name = "patched_evaluate" /\ ScriptOf(fn_in) # NoneS) =>
        fn_out = [script |->
                    IF ~is_function(ScriptOf(fn_in)) /\ HasReturnStatement(ScriptOf(fn_in))
                    THEN WRAP_OPEN \o ScriptOf(fn_in) \o WRAP_CLOSE
                    ELSE ScriptOf(fn_in)]

\* the literals the three full patterns extract from a selector
Extracted(selector) ==
    { has_text_match(selector), text_match(selector), label_match(selector) } \ { NoneS }

\* C8: a smart-click adaptation given a selector and no text hands on a text
\* argument: a literal extracted by one of the three patterns, or the raw
\* selector when no pattern matches; never an absent or None text.
C8_SmartClickTextNeverNone ==
    (fn.name \in SmartClickAdaptations
        /\ "selector" \in DOMAIN fn_in /\ "text" \notin DOMAIN fn_in) =>
        /\ "text" \in DOMAIN fn_out
        /\ fn_out.text # NoneS
        /\ IF Extracted(fn_in.selector) = {} THEN fn_out.text = fn_in.selector
                                            ELSE fn_out.text \in Extracted(fn_in.selector)

\* the adaptations of the screenshot filename named by C9
FilenameAdaptations ==
    { "param_adapter.adapt_screenshot", "playwright_adapter.adapt_screenshot",
      "patched_screenshot" }

\* the extension test of an adaptation: patched_screenshot ignores letter case
HasPngSuffix(name, filename) ==
    IF name = "patched_screenshot" THEN EndsWith(Lower(filename), PNG)
                                   ELSE EndsWith(filename, PNG)

\* C9 (amended): a request without filename gets a generated name ending in
\* '.png'; a filename gets '.png' appended unless it already ends in '.png' -
\* compared exactly by adapt_screenshot and in any letter case by
\* patched_screenshot; a second pass of the adaptation over its own output
\* changes nothing.
C9_ScreenshotFilenameAdapted ==
    fn.name \in FilenameAdaptations =>
        /\ (fn.pass = 1 /\ "filename" \notin DOMAIN fn_in) =>
               /\ \E now \in Nows : fn_out.filename = default_filename(now)
               /\ EndsWith(fn_out.filename, PNG)
        /\ (fn.pass = 1 /\ "filename" \in DOMAIN fn_in) =>
               fn_out.filename = IF HasPngSuffix(fn.name, fn_in.filename)
                                 THEN fn_in.filename
                                 ELSE fn_in.filename \o PNG
        /\ fn.pass = 2 => fn_out = fn_in

\* C9 witness: patched_screenshot has run a second time over 'a.PNG', the name
\* its first pass handed on
C9_Witness ==
    /\ fn = [name |-> "patched_screenshot", pass |-> 2]
    /\ fn_in.filename = <<"a",".","P","N","G">>
    /\ fn_out.filename = <<"a",".","P","N","G">>

\* C9 as stated: every filename that does not end in '.png' gets '.png' appended
C9_AppendedUnlessPng ==
    (fn.name \in FilenameAdaptations /\ fn.pass = 1 /\ "filename" \in DOMAIN fn_in) =>
        fn_out.filename = IF EndsWith(fn_in.filename, PNG)
                          THEN fn_in.filename
                          ELSE fn_in.filename \o PNG

\* the argument the adapters add to a step: text for a smart click given by
\* selector, filename for a screenshot without one
AdaptedKey(call) ==
    IF call.tool = "playwright_smart_click" /\ "text" \notin DOMAIN call.arguments
        THEN "text"
    ELSE IF call.tool = "playwright_screenshot" /\ "filename" \notin DOMAIN call.arguments
        THEN "filename"
    ELSE None

\* C10: when process_natural_language returns, the trace holds for every
\* playwright_smart_click / playwright_screenshot step of the plan the result of
\* an invocation that received the adapted arguments.
C10_RecordedResultIsAdapted ==
    (executor = PNL /\ pc = "returned"
        /\ client.session /\ client.llm_client /\ client.server) =>
        \A k \in 1..Len(tool_calls) :
            AdaptedKey(tool_calls[k]) # None =>
                \E n \in 1..Len(results), m \in 1..Len(invoked) :
                    /\ results[n].step = k
                    /\ invoked[m].step = k
                    /\ AdaptedKey(tool_calls[k]) \in DOMAIN invoked[m].arguments

-----------------------------------------------------------------------------
(* Claims about recovery in run_integrated.                                *)

\* passes of the loop that started a nearest-name fallback or a recovery
RecoveriesStarted ==
    Cardinality({ n \in 1..Len(log) : log[n].sub \in {"fallback", "recovery"} })

\* passes whose step failed while it had a recovery of its own
RecoverableFailures ==
    Cardinality({ n \in 1..Len(log) :
        /\ log[n].outcome = "error"
        /\ log[n].tool \in {"playwright_smart_click", "playwright_screenshot"} })

\* C11: during one plan of run_integrated the recovery counter never exceeds 2
\* and equals the number of fallbacks and recoveries started, so at most 2 are
\* started whatever the plan and the step outcomes.
C11_RecoveryCounterAtMostTwo ==
    executor = RI =>
        /\ error_recovery_attempts \in 0..max_recovery_attempts
        /\ RecoveriesStarted = error_recovery_attempts
        /\ RecoveriesStarted <= 2

\* C11 witness: three steps with a recovery of their own have failed and only
\* two recoveries were started
C11_Witness ==
    /\ executor = RI
    /\ error_recovery_attempts = 2
    /\ RecoverableFailures >= 3
    /\ RecoveriesStarted = 2

\* the first recovery selector, in list order, that is visible and clicks (0: none)
FirstClickable(clickable) ==
    IF clickable = {} THEN 0
    ELSE CHOOSE k \in clickable : \A j \in clickable : k <= j

\* the passes of the loop in which the smart-click recovery ran
RecoveryPasses == { n \in 1..Len(log) : "clickable" \in DOMAIN log[n] }

\* the trace entries recorded from the result of the step of pass n
EntriesOf(n) ==
    { k \in 1..Len(results) : results[k].step = log[n].step /\ results[k].error = NoError }

\* C12: in the recovery of a failed smart click with text the selectors are tried
\* in list order up to the first that clicks, the script runs only if none
\* clicked, the entry ends 'completed' with a note of the path used exactly if a
\* path succeeded and stays 'failed' otherwise, and the next pass runs the next
\* step.
C12_SmartClickRecoveryOrder ==
    \A n \in RecoveryPasses :
        LET first == FirstClickable(log[n].clickable)
            recovered == first > 0 \/ (log[n].js_ran /\ log[n].js)
        IN  /\ log[n].tried = IF first > 0 THEN first ELSE Len(recovery_selectors)
            /\ log[n].js_ran <=> first = 0
            /\ EntriesOf(n) # {}
            /\ \A k \in EntriesOf(n) :
                  /\ results[k].status = IF recovered THEN "completed" ELSE "failed"
                  /\ results[k].recovery =
                        IF first > 0 THEN recovery_selectors[first]
                        ELSE IF recovered THEN "Used JavaScript recovery" ELSE None
            /\ IF n < Len(log) THEN log[n + 1].i = log[n].i + 1 ELSE i = log[n].i + 1

\* C12 witness: the third and the last selector click; three were tried, the
\* script did not run and the entry is 'completed' with the third selector noted
C12_Witness ==
    \E n \in RecoveryPasses :
        /\ log[n].clickable = {3, 5}
        /\ log[n].tried = 3
        /\ ~log[n].js_ran
        /\ \E k \in EntriesOf(n) :
              results[k].status = "completed" /\ results[k].recovery = recovery_selectors[3]

\* C13: an entry of the plan trace, once appended, keeps its tool, status,
\* result and error through every later step of the executor, the recovery
\* paths included.
C13_TraceEntriesImmutable ==
    [][\A k \in 1..Len(results) :
          /\ k <= Len(results')
          /\ results'[k].tool = results[k].tool
          /\ results'[k].status = results[k].status
          /\ results'[k].result = results[k].result
          /\ results'[k].error = results[k].error]_vars

-----------------------------------------------------------------------------
(* Claims about process_natural_language and the tools instance.           *)

\* C14: for a reply of the language model that yields no list of tool calls,
\* process_natural_language returns status 'error' with the raw reply under
\* 'raw_response' and executes no step.
C14_ParseFailureCarriesRawReply ==
    (executor = PNL /\ pc = "returned"
        /\ client.session /\ client.llm_client /\ client.server
        /\ reply # "tool_calls") =>
        /\ ret.status = "error"
        /\ ret.raw_response = reply
        /\ invoked = << >>

AutomationActions ==
    { "playwright_click", "playwright_screenshot",
      "playwright_wait_for_load_state_multiple" }

\* C15: every automation action of PlaywrightTools, whatever its input and
\* whatever fails in the browser library, returns a mapping with a message whose
\* status is 'success' or 'error'; it never returns nothing, never raises and
\* never gives another status.
C15_ActionsReturnSuccessOrError ==
    tool_ret.op \in AutomationActions =>
        /\ tool_ret.outcome = "returned"
        /\ tool_ret.value = "mapping"
        /\ tool_ret.status \in { "success", "error" }
        /\ tool_ret.message

\* C17: whatever operations were carried out on the instance, at most one
\* browser that it launched is open and at most one context is alive: a browser
\* is launched only when every browser launched before it has been closed.
C17_AtMostOneOpenBrowser ==
    /\ Cardinality(OpenBrowsers(world)) <= 1
    /\ Cardinality({ c \in 1..Len(world.contexts) :
                        world.contexts[c] \in OpenBrowsers(world) }) <= 1

\* The step is a cleanup.
CleanupStep == tool_ret'.op = "cleanup"

\* The step is an automation action that follows a cleanup.
ActionAfterCleanup == tool_ret.op = "cleanup" /\ tool_ret'.op \in AutomationActions

HandlesKept ==
    /\ tools'.playwright = tools.playwright
    /\ tools'.browser = tools.browser
    /\ tools'.context = tools.context

\* The action ran on pages made by this step in the context held before it.
OnFreshPage ==
    /\ tools'.pages # << >>
    /\ \A k \in 1..Len(tools'.pages) :
           /\ tools'.pages[k] > Len(world.pages)
           /\ world'.pages[tools'.pages[k]] = tools.context

-----------------------------------------------------------------------------
(* Claims about tool discovery, the fill patch and the command mode.       *)

Range(seq) == { seq[k] : k \in 1..Len(seq) }

\* C18: for every tools instance _create_tools returns one tool for each
\* callable attribute whose name starts with 'playwright_' and no other tool,
\* and the brief of process_natural_language lists exactly the same names.
C18_ToolsAndBriefAreThePrefixedCallables ==
    (fn.name = "registry" /\ fn.pass = 2) =>
        /\ Range(fn_out.tools) =
               { m \in DOMAIN fn_in : IsCallable(fn_in, m) /\ StartsWith(m, PlaywrightPrefix) }
        /\ Len(fn_out.tools) = Cardinality(Range(fn_out.tools))
        /\ Range(fn_out.brief.listed) = Range(fn_out.tools)

\* C19: patched_fill given value and no text hands the original fill what it
\* hands it when the same text is given as text; given both, it goes by text
\* and does not forward value; without a selector, or with neither a text nor
\* a value that is not empty, it returns an error and does not call the
\* original fill.
C19_FillTakesValueForText ==
    fn.name = "patched_fill" =>
        LET selector == Param(fn_in, "selector")
            value == Param(fn_in, "value")
            text == Param(fn_in, "text")
            forwards(t) == fn_out.called =>
                              /\ fn_out.params.text = t
                              /\ "value" \notin DOMAIN fn_out.params
        IN  /\ (value # NoneS /\ text = NoneS) =>
                 /\ fn_out = patched_fill(With(Without(fn_in, "value"), "text", value))
                 /\ forwards(value)
            /\ (value # NoneS /\ text # NoneS) =>
                 /\ fn_out = patched_fill(Without(fn_in, "value"))
                 /\ forwards(text)
            /\ (Falsy(selector) \/ (Falsy(text) /\ Falsy(value))) =>
                 /\ ~fn_out.called
                 /\ fn_out.status = ERROR

\* C19 (witness): a call with value and without text reached the original fill
\* with the value as text.
C19_Witness ==
    /\ fn.name = "patched_fill"
    /\ "text" \notin DOMAIN fn_in
    /\ "value" \in DOMAIN fn_in /\ fn_in.value = <<"v">>
    /\ fn_out.called
    /\ fn_out.params.text = <<"v">>

\* the calls that turn an instruction into a plan and run it
PlanProducerCalls == { "process_natural_language", "run_integrated" }

\* C20: when main returns in command mode, the instruction was handed to the
\* plan producer and its tool calls were run, and server.stop() was called
\* exactly when --keep-browser was not given.
C20_CommandRunsThenStops ==
    (fn.name = "main" /\ fn_out.exited /\ ~fn_in.test /\ ~Falsy(fn_in.command)) =>
        /\ Range(fn_out.events) \cap PlanProducerCalls # {}
        /\ ("server.stop" \in Range(fn_out.events)) <=> ~fn_in.keep_browser

-----------------------------------------------------------------------------
(* Claims about the interactive loop, the resolution of action names and   *)
(* the plan of a reply.                                                    *)

ExitTyped ==
    { <<"e","x","i","t">>, <<"E","X","I","T">>, <<" ","Q","u","i","t"," ">>,
      <<"q","u","i","t">> }

LoopEnded == fn_out.at \in { "finally", "returned" } /\ fn_out.events # << >>

\* C21: the interactive loop of run_integrated ends only on a pass in which
\* the user typed exit or quit, in any letter case, or interrupted; a pass
\* that fails while the plan is produced or executed is followed by the next
\* prompt; and once the loop has ended and run_integrated has returned,
\* server.stop() has been called exactly once.
C21_LoopEndsOnExitOrInterrupt ==
    fn.name = "run_integrated" =>
        LET ev == fn_out.events
            n == Len(ev)
        IN  /\ LoopEnded =>
                \/ ev[n].typed \in ExitTyped
                \/ ev[n].outcome \in Interrupts
            /\ \A k \in 1..n :
                   ev[k].outcome \in PlanErrors \cup { "EOFError", "empty", "summary" } =>
                       k < n \/ fn_out.at = "prompt"
            /\ fn_out.stops <= 1
            /\ (LoopEnded /\ fn_out.at = "returned") => fn_out.stops = 1

C21_Witness ==
    /\ fn.name = "run_integrated"
    /\ fn_out.at = "returned"
    /\ fn_out.stops = 1
    /\ Len(fn_out.events) = 3
    /\ fn_out.events[1].outcome = "plan_raises"
    /\ fn_out.events[2].outcome = "json_error"
    /\ fn_out.events[3].typed = <<" ","Q","u","i","t"," ">>

\* two passes of the loop invoked the method of the same ToolCall
InvokedTwice(k) ==
    \E m, n \in 1..Len(invoked) : m # n /\ invoked[m].step = k /\ invoked[n].step = k

\* C22: a pass of the executor loop over a resolved step invokes the resolved
\* method exactly once, for every action name and with or without the adapter
\* module, and no ToolCall other than a navigation the user asked to retry has
\* its action performed twice.
C22_ActionPerformedOnce ==
    /\ \A tool_name \in Registry, adapters_imported \in BOOLEAN :
           PNL_PassInvocations(tool_name, adapters_imported) = 1
    /\ \A k \in 1..Len(tool_calls) :
           InvokedTwice(k) => tool_calls[k].tool = "playwright_navigate"

\* the position in the enumeration of the first registry name at the least
\* distance of tool_name
NearestIndex(tool_name) ==
    LET D(j) == Distance(Chars(tool_name), Chars(available_tools[j]))
    IN  CHOOSE j \in 1..Len(available_tools) :
            /\ \A m \in 1..Len(available_tools) : D(j) <= D(m)
            /\ \A m \in 1..(j - 1) : D(m) > D(j)

\* the fallbacks chosen in the passes before pass k
FallbacksBefore(k) == Cardinality({ j \in 1..(k - 1) : log[j].sub = "fallback" })

\* C23: for an action name the tools instance does not have, the name recorded
\* for the step is the alias of the name if it has one; else the first registry
\* name at the least distance, if that distance is at most 3 and fewer than 2
\* recoveries were used in the plan; else playwright_auto_execute, if the least
\* distance is at most 5 and the instance has that method; else the name itself.
C23_SubstitutionPrecedence ==
    (executor = RI /\ \A j \in 1..Len(log) : log[j].outcome = "not_found") =>
        \A k \in 1..Len(log) :
            log[k].outcome = "not_found" =>
                LET tool_name == log[k].tool
                    nearest == available_tools[NearestIndex(tool_name)]
                    d == Distance(Chars(tool_name), Chars(nearest))
                    chosen == results[k].tool
                IN  IF tool_name \in { "playwright_type", "playwright_input",
                                       "playwright_search" }
                        THEN chosen = "playwright_fill"
                    ELSE IF tool_name = "playwright_press"
                        THEN chosen = "playwright_press_key"
                    ELSE IF d <= 3 /\ FallbacksBefore(k) < 2
                        THEN chosen = nearest
                    ELSE IF d <= 5 /\ "playwright_auto_execute" \in MethodSet
                        THEN chosen = "playwright_auto_execute"
                    ELSE chosen = tool_name

C23_Witness ==
    /\ executor = RI
    /\ pc = "done"
    /\ Len(results) = 3
    /\ results[1].error.arg = "playwright_drll" /\ results[1].tool = "playwright_drag"
    /\ results[2].error.arg = "playwright_clk" /\ results[2].tool = "playwright_click"
    /\ results[3].error.arg = "playwright_clik" /\ results[3].tool = "playwright_clik"

HoldsPlan(seq) == \E k \in 1..Len(seq) : seq[k] = "plan"

\* C24: process_natural_language uses the plan of the first stage that yields
\* one: the first fenced block that is a plan; else the object matched by the
\* tool_calls pattern; else the first brace object that is a plan; else the
\* tool calls gathered from the fenced blocks.
C24_FirstYieldingStage ==
    (fn.name = PNL /\ fn.pass = 1) =>
        LET blocks == fn_in.json_block_matches
            objects == fn_in.json_matches
            calls == \E k \in 1..Len(blocks) :
                         blocks[k] \in { "list_of_calls", "text_with_calls" }
        IN  /\ HoldsPlan(blocks) =>
                /\ fn_out.stage = 1
                /\ blocks[fn_out.at] = "plan"
                /\ \A j \in 1..(fn_out.at - 1) : blocks[j] # "plan"
            /\ (~HoldsPlan(blocks) /\ fn_in.tool_calls_match = "valid") =>
                fn_out.stage = 2
            /\ (~HoldsPlan(blocks) /\ fn_in.tool_calls_match # "valid"
                    /\ HoldsPlan(objects)) =>
                /\ fn_out.stage = 3
                /\ objects[fn_out.at] = "plan"
                /\ \A j \in 1..(fn_out.at - 1) : objects[j] # "plan"
            /\ (~HoldsPlan(blocks) /\ fn_in.tool_calls_match # "valid"
                    /\ ~HoldsPlan(objects) /\ calls) =>
                fn_out.stage = 4

-----------------------------------------------------------------------------
(* Claims about the retry loops, the patch table, the count of successes,  *)
(* the code generation sessions, the adaptations and execute_plan.         *)

\* C25: called with max_attempts >= 1, playwright_screenshot and
\* playwright_smart_click return a result mapping after at least one and at
\* most max_attempts passes of their loop, whatever fails in each pass.
C25_RetryLoopsReturn ==
    (tool_ret.op \in { "playwright_screenshot", "playwright_smart_click" }
        /\ fn.name = "retry" /\ fn_in.in.max_attempts >= 1) =>
        /\ tool_ret.outcome = "returned"
        /\ tool_ret.value = "mapping"
        /\ tool_ret.attempts >= 1
        /\ tool_ret.attempts <= fn_in.in.max_attempts

C25_Witness ==
    /\ fn.name = "retry"
    /\ tool_ret.op = "playwright_smart_click"
    /\ fn_in.in.max_attempts = 2
    /\ fn_in.fails = << {"new_page"}, {"launch"} >>
    /\ tool_ret.attempts = 2
    /\ tool_ret.status = "error"

\* C26: after any calls of apply_patches and restore_patches, a patched method
\* of an instance finds in original_functions the original method of that same
\* instance, and an instance that was just restored holds its own original
\* methods again.
C26_TableHoldsOwnOriginals ==
    fn.name = "playwright_function_patches" =>
        /\ \A x \in PatchedInstances, k \in PatchKeys :
               fn_out.methods[x][k].impl = "patched" =>
                   fn_out.original_functions[k] = Original(x)
        /\ LET n == Len(fn_out.calls)
           IN  (n > 0 /\ fn_out.calls[n].op = "restore_patches"
                      /\ \E j \in 1..n : /\ fn_out.calls[j].op = "apply_patches"
                                         /\ fn_out.calls[j].instance = fn_out.calls[n].instance) =>
                   \A k \in PatchKeys :
                       fn_out.methods[fn_out.calls[n].instance][k]
                           \in { Original(fn_out.calls[n].instance), NoMethod }

Completed == { k \in 1..Len(results) : results[k].status = "completed" }

\* C27: when the executor loop of run_integrated is left, success_count is the
\* number of trace entries with status 'completed' and is at most the number
\* of ToolCalls of the plan.
C27_SuccessCountWithinPlan ==
    (executor = RI /\ pc = "done") =>
        /\ success_count = Cardinality(Completed)
        /\ success_count <= Len(tool_calls)

\* C28: start_codegen_session returns an id that no open session has, and the
\* number of open sessions grows by exactly one.
C28_StartGivesFreshSessionId ==
    (fn.name = "codegen" /\ fn_out.last.op = "start_codegen_session") =>
        /\ fn_out.last.session_id \notin fn_out.last.before
        /\ Cardinality(DOMAIN fn_out.codegen_sessions)
               = Cardinality(fn_out.last.before) + 1

\* C29: for a call with a selector and no text, the text handed on is the same
\* whichever of the four adaptations made it: the two adapter modules, the
\* patch and the lines written out in the executor loop.
C29_SameTextInEveryLayer ==
    (fn.pass = 1 /\ "selector" \in DOMAIN fn_in /\ "text" \notin DOMAIN fn_in
        /\ fn.name \in { "param_adapter.adapt_smart_click",
                         "playwright_adapter.adapt_smart_click",
                         "patched_smart_click", "process_natural_language" }) =>
        { param_adapter_adapt_smart_click(fn_in).text,
          playwright_adapter_adapt_smart_click(fn_in).text,
          patched_smart_click(fn_in).text,
          inline_adapt_smart_click(fn_in).text } = { fn_out.text }

\* C30: with a session, execute_plan returns one result entry per tool call of
\* the plan, in the order of the plan, whatever happens to each call; it
\* returns an empty list only for an empty plan or without a session.
C30_OneResultPerToolCall ==
    (fn.name = "execute_plan" /\ fn_out.at = "returned") =>
        /\ fn_in.session =>
               /\ Len(fn_out.results) = Len(fn_in.tool_calls)
               /\ \A k \in 1..Len(fn_out.results) : fn_out.results[k].step = k
        /\ fn_out.results = << >> =>
               fn_in.tool_calls = << >> \/ ~fn_in.session

=============================================================================
